---------------------------- MODULE Spec2Model ----------------------------
(***************************************************************************)
(* Model of pcgen_spell_lst_generator.py: the Spell record, its encoder    *)
(* (Spell.__str__) and the decoder/merge loop of                           *)
(* SpellGenerator.load_spell_lst.                                          *)
(*                                                                         *)
(* A Python str is a sequence of one-character strings, so that splitting, *)
(* stripping, prefix tests and length arithmetic are computed as the code  *)
(* computes them.                                                          *)
(***************************************************************************)
EXTENDS Integers, Sequences, FiniteSets, TLC

(***************************************************************************)
(* Python str operations used by the program                               *)
(***************************************************************************)
TAB == "\t"

Whitespace == {" ", "\t", "\n"}

\* str.strip(): from the first to the last character that is not whitespace
Strip(s) ==
    IF \A i \in 1..Len(s) : s[i] \in Whitespace THEN <<>>
    ELSE SubSeq(s,
                CHOOSE i \in 1..Len(s) :
                    s[i] \notin Whitespace /\ \A j \in 1..(i - 1) : s[j] \in Whitespace,
                CHOOSE i \in 1..Len(s) :
                    s[i] \notin Whitespace /\ \A j \in (i + 1)..Len(s) : s[j] \in Whitespace)

\* str.startswith(p)
StartsWith(s, p) == Len(s) >= Len(p) /\ \A k \in 1..Len(p) : s[k] = p[k]

\* str.endswith(p)
EndsWith(s, p) == Len(s) >= Len(p) /\ \A k \in 1..Len(p) : s[Len(s) - Len(p) + k] = p[k]

\* the positions at which p occurs in s
Occurrences(s, p) ==
    {i \in 1..(Len(s) - Len(p) + 1) : \A k \in 1..Len(p) : s[i + k - 1] = p[k]}

\* str.count(p).  Every p the program counts (one character, "SOURCELONG", ".MOD",
\* "Arcane", "Divine", "Psychic") cannot overlap itself, so the number of
\* non-overlapping occurrences is the number of occurrences.
Count(s, p) == Cardinality(Occurrences(s, p))

\* str.index(c) for a character that occurs in s: 0-based position of the first one
Index(s, c) == (CHOOSE i \in 1..Len(s) : s[i] = c /\ \A j \in 1..(i - 1) : s[j] # c) - 1

\* s[a:b] with 0 <= a, b <= len(s); empty when a >= b
Slice(s, a, b) == IF a >= b THEN <<>> ELSE SubSeq(s, a + 1, b)

\* the position of the k-th of the separators at the positions at; 0 for k = 0,
\* past the end of the string (of length n) after the last one
SepAt(at, n, k) ==
    IF k = 0 THEN 0
    ELSE IF k > Cardinality(at) THEN n + 1
    ELSE CHOOSE i \in at : Cardinality({j \in at : j < i}) = k - 1

\* str.split(sep) for a one-character separator; "".split(sep) is [""]
Split(s, sep) ==
    LET at == Occurrences(s, <<sep>>)
    IN  [k \in 1..(Cardinality(at) + 1) |->
            SubSeq(s, SepAt(at, Len(s), k - 1) + 1, SepAt(at, Len(s), k) - 1)]

\* str.split(sep, maxsplit=1)
SplitMax1(s, sep) ==
    IF Count(s, <<sep>>) = 0 THEN <<s>>
    ELSE LET i == Index(s, sep)
         IN  <<Slice(s, 0, i), Slice(s, i + 1, Len(s))>>

\* sep.join(strings)
RECURSIVE Join(_, _)
Join(strings, sep) ==
    IF strings = <<>> THEN <<>>
    ELSE IF Len(strings) = 1 THEN strings[1]
    ELSE strings[1] \o sep \o Join(Tail(strings), sep)

\* str.replace(old, ""): every non-overlapping occurrence of old removed
RECURSIVE Remove(_, _)
Remove(s, old) ==
    IF Len(s) < Len(old) THEN s
    ELSE IF SubSeq(s, 1, Len(old)) = old
         THEN Remove(SubSeq(s, Len(old) + 1, Len(s)), old)
         ELSE <<Head(s)>> \o Remove(Tail(s), old)

LowerCase == <<"a","b","c","d","e","f","g","h","i","j","k","l","m",
               "n","o","p","q","r","s","t","u","v","w","x","y","z">>
UpperCase == <<"A","B","C","D","E","F","G","H","I","J","K","L","M",
               "N","O","P","Q","R","S","T","U","V","W","X","Y","Z">>

\* str.upper()
Upper(s) ==
    [i \in 1..Len(s) |->
        IF \E k \in 1..26 : LowerCase[k] = s[i]
        THEN UpperCase[CHOOSE k \in 1..26 : LowerCase[k] = s[i]]
        ELSE s[i]]

Digits == <<"0","1","2","3","4","5","6","7","8","9">>

IsDigit(c) == \E k \in 1..10 : Digits[k] = c

DigitVal(c) == (CHOOSE k \in 1..10 : Digits[k] = c) - 1

RECURSIVE Decimal(_)
Decimal(ds) == IF ds = <<>> THEN 0 ELSE 10 * Decimal(SubSeq(ds, 1, Len(ds) - 1)) + DigitVal(ds[Len(ds)])

\* int(s): surrounding whitespace is ignored, one optional sign, then one or more
\* decimal digits; anything else raises ValueError (ok = FALSE)
PyInt(s) ==
    LET t      == Strip(s)
        signed == t # <<>> /\ Head(t) \in {"+", "-"}
        ds     == IF signed THEN Tail(t) ELSE t
        ok     == ds # <<>> /\ \A i \in 1..Len(ds) : IsDigit(ds[i])
    IN  [ok  |-> ok,
         val |-> IF ~ok THEN 0
                 ELSE IF signed /\ Head(t) = "-" THEN 0 - Decimal(ds) ELSE Decimal(ds)]

\* str(level) for a list index 0..9
StrLevel(level) == <<Digits[level + 1]>>

\* "\t" * n; the empty string when n <= 0
Tabs(n) == [i \in 1..n |-> TAB]

\* list.remove(x): the first element equal to x removed
RemoveFirst(list, x) ==
    LET i == CHOOSE k \in 1..Len(list) : list[k] = x /\ \A j \in 1..(k - 1) : list[j] # x
    IN  SubSeq(list, 1, i - 1) \o SubSeq(list, i + 1, Len(list))

(***************************************************************************)
(* Program constants and tags                                              *)
(***************************************************************************)
PCGEN_TAB_SIZE == 6

Modes == {"Pathfinder 1e", "D&D 3.5e", "D&D 5e"}

TAG_TYPE == <<"T","Y","P","E",":">>
TAG_CLASSES == <<"C","L","A","S","S","E","S",":">>
TAG_SCHOOL == <<"S","C","H","O","O","L",":">>
TAG_SUBSCHOOL == <<"S","U","B","S","C","H","O","O","L",":">>
TAG_CASTTIME == <<"C","A","S","T","T","I","M","E",":">>
TAG_RANGE == <<"R","A","N","G","E",":">>
TAG_DURATION == <<"D","U","R","A","T","I","O","N",":">>
TAG_TARGETAREA == <<"T","A","R","G","E","T","A","R","E","A",":">>
TAG_SAVEINFO == <<"S","A","V","E","I","N","F","O",":">>
TAG_SPELLRES == <<"S","P","E","L","L","R","E","S",":">>
TAG_DESCRIPTOR == <<"D","E","S","C","R","I","P","T","O","R",":">>
TAG_DESC == <<"D","E","S","C",":">>
TAG_COMPS == <<"C","O","M","P","S",":">>
MOD_MARK == <<".","M","O","D">>
SOURCELONG == <<"S","O","U","R","C","E","L","O","N","G">>
Arcane == <<"A","r","c","a","n","e">>
Divine == <<"D","i","v","i","n","e">>
Psychic == <<"P","s","y","c","h","i","c">>
DotSpell == <<".","S","p","e","l","l">>

\* Spell.tags
tags ==
    [school |-> TAG_SCHOOL, subschool |-> TAG_SUBSCHOOL, casting_time |-> TAG_CASTTIME,
     range |-> TAG_RANGE, save |-> TAG_SAVEINFO, target |-> TAG_TARGETAREA,
     duration |-> TAG_DURATION, sr |-> TAG_SPELLRES, desc |-> TAG_DESC,
     type |-> TAG_TYPE, descriptors |-> TAG_DESCRIPTOR, comps |-> TAG_COMPS]

NoClasses == [level \in 1..10 |-> <<>>]

\* Spell.__init__ called with the spell_dict d of load_spell_lst: the text fields,
\* the descriptors and the other fields are stored stripped, the classes as given.
\* classes[level + 1] is the Python list classes[level].
Spell(d) ==
    [fields |->
        [name |-> Strip(d.name), school |-> Strip(d.school),
         subschool |-> Strip(d.subschool), casting_time |-> Strip(d.casting_time),
         range |-> Strip(d.range), save |-> Strip(d.save), target |-> Strip(d.target),
         duration |-> Strip(d.duration), sr |-> Strip(d.sr), desc |-> Strip(d.desc),
         material_desc |-> Strip(d.material_desc),
         class_suffix |-> Strip(d.class_suffix)],
     classes |-> d.classes,
     type |-> [arcane |-> d.arcane, divine |-> d.divine, psychic |-> d.psychic],
     descriptors |-> [i \in 1..Len(d.descriptors) |-> Strip(d.descriptors[i])],
     comps |-> [verbal |-> d.verbal, somatic |-> d.somatic, material |-> d.material,
                focus |-> d.focus, divine_focus |-> d.divine_focus],
     other_fields |-> [i \in 1..Len(d.other_fields) |-> Strip(d.other_fields[i])]]

(***************************************************************************)
(* Spell.__str__: the encoder, one operator per field of the line          *)
(***************************************************************************)
\* int(a / b) for a >= 0, b > 0
IntDiv(a, b) == a \div b

\* field_width as __str__ sets it for the mode
field_width(mode) ==
    [type |-> 4, school |-> 4,
     subschool |-> IF mode = "D&D 5e" THEN 3 ELSE 4,
     casting_time |-> 5, range |-> 4,
     duration |-> IF mode = "D&D 5e" THEN 7 ELSE 10,
     save |-> IF mode = "D&D 5e" THEN 4 ELSE 7,
     sr |-> IF mode = "D&D 5e" THEN 0 ELSE 4,
     comps |-> IF mode = "D&D 5e" THEN 11 ELSE 3,
     descriptors |-> IF mode = "D&D 5e" THEN 0 ELSE 7,
     target |-> IF mode = "D&D 5e" THEN 0 ELSE 10,
     classes |-> 10]

\* calculate_tabs_raw measuring the token as passed, without token.strip()
calculate_tabs_unstripped(token, width) ==
    <<width - IntDiv(Len(token), PCGEN_TAB_SIZE),
      IF Len(token) > width * PCGEN_TAB_SIZE
      THEN IntDiv(Len(token), PCGEN_TAB_SIZE) - width ELSE 0>>

\* calculate_tabs_raw: <<tabs, excess_tabs>>
calculate_tabs_raw(token, width) ==
    LET t == Strip(token)
    IN  <<width - IntDiv(Len(t), PCGEN_TAB_SIZE),
          IF Len(t) > width * PCGEN_TAB_SIZE
          THEN IntDiv(Len(t), PCGEN_TAB_SIZE) - width ELSE 0>>

\* calculate_tabs
calculate_tabs(spell, field_name, width) ==
    calculate_tabs_raw(tags[field_name] \o spell.fields[field_name], width)

\* PayDown with the debt that the padding does not cover forgotten
PayDownForgetful(tabs, excess_tabs) ==
    <<IF tabs > excess_tabs THEN tabs - excess_tabs ELSE IF tabs > 0 THEN 0 ELSE tabs, 0>>

\* while tabs > 0 and excess_tabs > 0: tabs -= 1; excess_tabs -= 1
RECURSIVE PayDown(_, _)
PayDown(tabs, excess_tabs) ==
    IF tabs > 0 /\ excess_tabs > 0 THEN PayDown(tabs - 1, excess_tabs - 1)
    ELSE <<tabs, excess_tabs>>

\* The end of every field's block: the token (if any) is appended, the field's
\* excess et is added to the debt, the debt is paid down against the field's
\* padding, and the remaining tabs are appended.  padding records the value of
\* tabs before the pay-down loop, debt_in the debt the loop started from.
EmitField(st, token, padding, et) ==
    LET paid == PayDown(padding, st.excess_tabs + et)
    IN  [spell_string |-> st.spell_string \o token \o Tabs(paid[1]),
         excess_tabs  |-> paid[2],
         tabs         |-> paid[1],
         padding      |-> padding,
         debt_in      |-> st.excess_tabs + et]

\* the name and its padding
StrName(spell) ==
    LET n == Len(spell.fields.name)
    IN  [spell_string |-> spell.fields.name \o Tabs(6 - IntDiv(n, PCGEN_TAB_SIZE)),
         excess_tabs  |-> IF n > 6 * PCGEN_TAB_SIZE
                          THEN IntDiv(n - 6 * PCGEN_TAB_SIZE, PCGEN_TAB_SIZE) ELSE 0,
         tabs         |-> 0,
         padding      |-> 0,
         debt_in      |-> 0]

\* the list of spell types after "TYPE:", and type_string_length
TypeString(spell, mode) ==
    LET a  == IF spell.type.arcane THEN Arcane ELSE <<>>
        d  == IF spell.type.divine
              THEN (IF spell.type.arcane THEN <<".">> ELSE <<>>) \o Divine ELSE <<>>
        p  == IF spell.type.psychic /\ mode = "Pathfinder 1e"
              THEN (IF spell.type.arcane \/ spell.type.divine THEN <<".">> ELSE <<>>)
                   \o Psychic
              ELSE <<>>
        s5 == IF mode = "D&D 5e" THEN DotSpell ELSE <<>>
    IN  a \o d \o p \o s5

StrType(st, spell, mode) ==
    IF spell.type.arcane \/ spell.type.divine \/ spell.type.psychic
    THEN LET type_string_length == 5 + Len(TypeString(spell, mode))
         IN  EmitField(st, <<TAB>> \o TAG_TYPE \o TypeString(spell, mode),
                       field_width(mode).type - IntDiv(type_string_length, PCGEN_TAB_SIZE), 0)
    ELSE EmitField(st, <<>>, field_width(mode).type + 1, 0)

\* SCHOOL: the padding is computed in place and no excess is recorded
StrSchool(st, spell, mode) ==
    IF Len(spell.fields.school) > 0
    THEN EmitField(st, <<TAB>> \o TAG_SCHOOL \o spell.fields.school,
                   field_width(mode).school
                       - IntDiv(Len(spell.fields.school) + 7, PCGEN_TAB_SIZE), 0)
    ELSE EmitField(st, <<>>, field_width(mode).school + 1, 0)

\* StrSubschool with an empty subschool padded by the nominal width only
StrSubschoolNarrow(st, spell, mode) ==
    IF Len(spell.fields.subschool) > 0
    THEN EmitField(st, <<TAB>> \o TAG_SUBSCHOOL \o spell.fields.subschool,
                   field_width(mode).subschool
                       - IntDiv(Len(spell.fields.subschool) + 10, PCGEN_TAB_SIZE), 0)
    ELSE EmitField(st, <<>>, field_width(mode).subschool, 0)

StrSubschool(st, spell, mode) ==
    IF Len(spell.fields.subschool) > 0
    THEN EmitField(st, <<TAB>> \o TAG_SUBSCHOOL \o spell.fields.subschool,
                   field_width(mode).subschool
                       - IntDiv(Len(spell.fields.subschool) + 10, PCGEN_TAB_SIZE), 0)
    ELSE EmitField(st, <<>>, field_width(mode).subschool + 1, 0)

\* StrField with the token left out: only the padding of an empty field is written
StrFieldNoToken(st, spell, mode, field) ==
    EmitField(st, <<>>, field_width(mode)[field] + 1, 0)

\* one iteration of "for field in fields"
StrField(st, spell, mode, field) ==
    IF Len(spell.fields[field]) > 0
    THEN LET te == calculate_tabs(spell, field, field_width(mode)[field])
         IN  EmitField(st, <<TAB>> \o tags[field] \o spell.fields[field], te[1], te[2])
    ELSE EmitField(st, <<>>, field_width(mode)[field] + 1, 0)

\* fields, as __str__ builds the list for the mode
LoopFields(mode) ==
    <<"casting_time", "range", "duration", "save">>
        \o (IF mode # "D&D 5e" THEN <<"sr", "target">> ELSE <<>>)

\* component_string
ComponentString(spell, mode) ==
    LET c  == spell.comps
        v  == IF c.verbal THEN <<"V">> ELSE <<>>
        s  == IF c.somatic THEN (IF c.verbal THEN <<",">> ELSE <<>>) \o <<"S">> ELSE <<>>
        m  == IF c.material
              THEN (IF c.verbal \/ c.somatic THEN <<",">> ELSE <<>>) \o <<"M">>
                   \o (IF Len(spell.fields.material_desc) > 0 /\ mode = "D&D 5e"
                       THEN <<" ", "(">> \o spell.fields.material_desc \o <<")">>
                       ELSE <<>>)
              ELSE <<>>
        first == ~(c.verbal \/ c.somatic \/ c.material)
        f  == IF mode = "D&D 5e" THEN <<>>
              ELSE IF c.focus
                   THEN (IF first THEN <<>> ELSE <<",">>) \o <<"F">>
                        \o (IF c.divine_focus THEN <<"/", "D", "F">> ELSE <<>>)
                   ELSE IF c.divine_focus
                        THEN (IF first THEN <<>> ELSE <<",">>) \o <<"D", "F">>
                        ELSE <<>>
    IN  <<TAB>> \o TAG_COMPS \o v \o s \o m \o f

StrComps(st, spell, mode) ==
    LET c == spell.comps
    IN  IF c.verbal \/ c.somatic \/ c.material \/ c.focus \/ c.divine_focus
        THEN LET te == calculate_tabs_raw(ComponentString(spell, mode),
                                          field_width(mode).comps)
             IN  EmitField(st, ComponentString(spell, mode), te[1], te[2])
        ELSE EmitField(st, <<>>, field_width(mode).comps + 1, 0)

classes_found(spell) == \E level \in 1..10 : Len(spell.classes[level]) > 0

\* the level groups from list index level on, each followed by "=level"
RECURSIVE LevelGroups(_, _, _)
LevelGroups(classes, level, first_level) ==
    IF level > 9 THEN <<>>
    ELSE IF Len(classes[level + 1]) > 0
         THEN (IF first_level THEN <<>> ELSE <<"|">>)
              \o Join(classes[level + 1], <<",">>) \o <<"=">> \o StrLevel(level)
              \o LevelGroups(classes, level + 1, FALSE)
         ELSE LevelGroups(classes, level + 1, first_level)

\* class_string without the class_suffix
ClassStringNoSuffix(spell) == <<TAB>> \o TAG_CLASSES \o LevelGroups(spell.classes, 0, TRUE)

\* class_string
ClassString(spell) ==
    <<TAB>> \o TAG_CLASSES \o LevelGroups(spell.classes, 0, TRUE)
        \o (IF Len(spell.fields.class_suffix) > 0 THEN spell.fields.class_suffix ELSE <<>>)

StrClasses(st, spell, mode) ==
    IF classes_found(spell)
    THEN LET te == calculate_tabs_raw(ClassString(spell), field_width(mode).classes)
         IN  EmitField(st, ClassString(spell), te[1], te[2])
    ELSE EmitField(st, <<>>, field_width(mode).classes + 1, 0)

\* descriptor_string
DescriptorString(spell) == <<TAB>> \o TAG_DESCRIPTOR \o Join(spell.descriptors, <<"|">>)

StrDescriptors(st, spell, mode) ==
    IF Len(spell.descriptors) > 0
    THEN LET te == calculate_tabs_raw(DescriptorString(spell), field_width(mode).descriptors)
         IN  EmitField(st, DescriptorString(spell), te[1], te[2])
    ELSE IF mode # "D&D 5e"
         THEN EmitField(st, <<>>, field_width(mode).descriptors + 1, 0)
         ELSE EmitField(st, <<>>, 0, 0)

\* StrDesc with the two tabs of DESC: paid down against the outstanding debt
StrDescPaysDebt(st, spell) ==
    IF Len(spell.fields.desc) > 0
    THEN [st EXCEPT !.spell_string =
                 @ \o Tabs(PayDown(2, st.excess_tabs)[1]) \o TAG_DESC \o spell.fields.desc]
    ELSE st

\* DESC: is appended after two tabs, outside the debt accounting
StrDesc(st, spell) ==
    IF Len(spell.fields.desc) > 0
    THEN [st EXCEPT !.spell_string = @ \o <<TAB, TAB>> \o TAG_DESC \o spell.fields.desc]
    ELSE st

RECURSIVE OtherString(_)
OtherString(other_fields) ==
    IF other_fields = <<>> THEN <<>>
    ELSE (IF Len(Strip(Head(other_fields))) > 0
          THEN <<TAB, TAB>> \o Strip(Head(other_fields)) ELSE <<>>)
         \o OtherString(Tail(other_fields))

StrOther(st, spell) == [st EXCEPT !.spell_string = @ \o OtherString(spell.other_fields)]

\* The blocks of __str__ in program order; the loop over fields contributes one
\* step per field of the mode.
Steps(mode) ==
    <<"type", "school", "subschool">> \o LoopFields(mode)
        \o <<"comps", "classes", "descriptors", "desc", "other">>

StrStep(st, spell, mode, step) ==
    CASE step = "type"        -> StrType(st, spell, mode)
      [] step = "school"      -> StrSchool(st, spell, mode)
      [] step = "subschool"   -> StrSubschool(st, spell, mode)
      [] step = "comps"       -> StrComps(st, spell, mode)
      [] step = "classes"     -> StrClasses(st, spell, mode)
      [] step = "descriptors" -> StrDescriptors(st, spell, mode)
      [] step = "desc"        -> StrDesc(st, spell)
      [] step = "other"       -> StrOther(st, spell)
      [] OTHER                -> StrField(st, spell, mode, step)

RECURSIVE StrFrom(_, _, _, _)
StrFrom(st, spell, mode, k) ==
    IF k > Len(Steps(mode)) THEN st
    ELSE StrFrom(StrStep(st, spell, mode, Steps(mode)[k]), spell, mode, k + 1)

\* str(spell) with spell.mode = mode
Str(spell, mode) == StrFrom(StrName(spell), spell, mode, 1).spell_string

(***************************************************************************)
(* SpellGenerator.load_spell_lst: decoding one record line                 *)
(***************************************************************************)
\* spell_dict as initialised for a record line; raised models an exception
\* (IndexError, ValueError) leaving load_spell_lst
spell_dict_init(name) ==
    [name |-> name, classes |-> NoClasses, class_suffix |-> <<>>,
     verbal |-> FALSE, somatic |-> FALSE, material |-> FALSE, focus |-> FALSE,
     divine_focus |-> FALSE, arcane |-> FALSE, divine |-> FALSE, psychic |-> FALSE,
     school |-> <<>>, casting_time |-> <<>>, range |-> <<>>, duration |-> <<>>,
     desc |-> <<>>, sr |-> <<>>, save |-> <<>>, target |-> <<>>, descriptors |-> <<>>,
     subschool |-> <<>>, material_desc |-> <<>>, other_fields |-> <<>>,
     raised |-> FALSE]

\* token.split(":", maxsplit=1)[1] for a token that starts with a tag
Value(token) == SplitMax1(token, ":")[2]

\* class_string.count("[") > 0 and class_string.count("]") > 0
HasSuffix(class_string) ==
    Count(class_string, <<"[">>) > 0 /\ Count(class_string, <<"]">>) > 0

\* class_string[start:end + 1], from the first "[" to the first "]"
ClassSuffix(class_string) ==
    Slice(class_string, Index(class_string, "["), Index(class_string, "]") + 1)

\* the CLASSES: value that is split into level groups: class_string[0:start]
\* when a suffix was found
ClassGroups(class_string) ==
    IF HasSuffix(class_string)
    THEN Slice(class_string, 0, Index(class_string, "["))
    ELSE class_string

\* some_list[level] on a 10-element Python list: IndexError outside -10..9, and a
\* negative level counts from the end of the list.  The result is the 1-based
\* position, 0 for IndexError.
ListIndex(level) ==
    IF level >= 0 /\ level <= 9 THEN level + 1
    ELSE IF level < 0 /\ level >= -10 THEN level + 10 + 1
    ELSE 0

\* One level group "a,b=3": the class list and the list position of the level.
\* raised: no "=" (IndexError), int() fails (ValueError), no such list element.
LevelGroup(level_group) ==
    LET parts == SplitMax1(level_group, "=")
        level == IF Len(parts) > 1 THEN PyInt(parts[2]) ELSE [ok |-> FALSE, val |-> 0]
    IN  [raised     |-> ~level.ok \/ ListIndex(level.val) = 0,
         pos        |-> IF level.ok THEN ListIndex(level.val) ELSE 0,
         class_list |-> Split(parts[1], ",")]

\* record line: spell_dict['classes'][level] = class_list, group after group
RECURSIVE SetGroups(_, _)
SetGroups(d, class_tokens) ==
    IF class_tokens = <<>> \/ d.raised THEN d
    ELSE LET g == LevelGroup(Head(class_tokens))
         IN  IF g.raised THEN [d EXCEPT !.raised = TRUE]
             ELSE SetGroups([d EXCEPT !.classes[g.pos] = g.class_list], Tail(class_tokens))

DecodeClasses(d, token) ==
    SetGroups([d EXCEPT !.class_suffix = IF HasSuffix(Value(token))
                                         THEN ClassSuffix(Value(token)) ELSE @],
              Split(ClassGroups(Value(token)), "|"))

DecodeType(d, token) ==
    [d EXCEPT !.arcane = Count(token, Arcane) > 0,
              !.divine = Count(token, Divine) > 0,
              !.psychic = Count(token, Psychic) > 0]

\* SetComps reading "F/DF" as a focus alone
RECURSIVE SetCompsFocusAlone(_, _)
SetCompsFocusAlone(d, comp_list) ==
    IF comp_list = <<>> THEN d
    ELSE LET comp == Strip(Head(comp_list))
             d1 == IF comp = <<"V">> THEN [d EXCEPT !.verbal = TRUE]
                   ELSE IF comp = <<"S">> THEN [d EXCEPT !.somatic = TRUE]
                   ELSE IF comp = <<"M">> THEN [d EXCEPT !.material = TRUE]
                   ELSE IF comp \in {<<"F">>, <<"F", "/", "D", "F">>}
                        THEN [d EXCEPT !.focus = TRUE]
                   ELSE IF comp = <<"D", "F">> THEN [d EXCEPT !.divine_focus = TRUE]
                   ELSE d
         IN  SetCompsFocusAlone(d1, Tail(comp_list))

\* for comp in comp_list
RECURSIVE SetComps(_, _)
SetComps(d, comp_list) ==
    IF comp_list = <<>> THEN d
    ELSE LET comp == Strip(Head(comp_list))
             d1 == IF comp = <<"V">> THEN [d EXCEPT !.verbal = TRUE]
                   ELSE IF comp = <<"S">> THEN [d EXCEPT !.somatic = TRUE]
                   ELSE IF comp = <<"M">> THEN [d EXCEPT !.material = TRUE]
                   ELSE IF comp = <<"F">> THEN [d EXCEPT !.focus = TRUE]
                   ELSE IF comp = <<"D", "F">> THEN [d EXCEPT !.divine_focus = TRUE]
                   ELSE IF comp = <<"F", "/", "D", "F">>
                        THEN [d EXCEPT !.focus = TRUE, !.divine_focus = TRUE]
                   ELSE d
         IN  SetComps(d1, Tail(comp_list))

DecodeComps(d, token) ==
    LET comp_string == Value(token)
        paren == Count(comp_string, <<"(">>) > 0 /\ Count(comp_string, <<")">>) > 0
    IN  IF paren
        THEN SetComps([d EXCEPT !.material_desc =
                          Slice(comp_string, Index(comp_string, "(") + 1,
                                Index(comp_string, ")"))],
                      Split(Slice(comp_string, 0, Index(comp_string, "(")), ","))
        ELSE SetComps(d, Split(comp_string, ","))

\* the body of "for token in tokens" of a record line
DecodeToken(d, tok) ==
    LET token == Strip(tok)
    IN  IF StartsWith(token, TAG_TYPE) THEN DecodeType(d, token)
        ELSE IF StartsWith(token, TAG_CLASSES) /\ ~EndsWith(token, TAG_CLASSES)
             THEN DecodeClasses(d, token)
        ELSE IF StartsWith(token, TAG_SCHOOL) THEN [d EXCEPT !.school = Value(token)]
        ELSE IF StartsWith(token, TAG_SUBSCHOOL) THEN [d EXCEPT !.subschool = Value(token)]
        ELSE IF StartsWith(token, TAG_CASTTIME) THEN [d EXCEPT !.casting_time = Value(token)]
        ELSE IF StartsWith(token, TAG_RANGE) THEN [d EXCEPT !.range = Value(token)]
        ELSE IF StartsWith(token, TAG_DURATION) THEN [d EXCEPT !.duration = Value(token)]
        ELSE IF StartsWith(token, TAG_TARGETAREA) THEN [d EXCEPT !.target = Value(token)]
        ELSE IF StartsWith(token, TAG_SAVEINFO) THEN [d EXCEPT !.save = Value(token)]
        ELSE IF StartsWith(token, TAG_SPELLRES) THEN [d EXCEPT !.sr = Value(token)]
        ELSE IF StartsWith(token, TAG_DESCRIPTOR)
             THEN [d EXCEPT !.descriptors = Split(Value(token), "|")]
        ELSE IF StartsWith(token, TAG_DESC) THEN [d EXCEPT !.desc = Value(token)]
        ELSE IF StartsWith(token, TAG_COMPS) THEN DecodeComps(d, token)
        ELSE IF ~EndsWith(token, TAG_CLASSES)
             THEN [d EXCEPT !.other_fields = Append(@, token)]
        ELSE d

RECURSIVE DecodeTokens(_, _)
DecodeTokens(d, tokens) ==
    IF tokens = <<>> \/ d.raised THEN d
    ELSE DecodeTokens(DecodeToken(d, Head(tokens)), Tail(tokens))

\* tokens = list(filter(None, line.split("\t"))): the non-empty pieces between
\* tabs, which are the maximal runs of characters other than tab, in order
Tokens(line) ==
    LET n        == Len(line)
        starts   == {i \in 1..n : line[i] # TAB /\ (i = 1 \/ line[i - 1] = TAB)}
        first(k) == CHOOSE i \in starts : Cardinality({j \in starts : j < i}) = k - 1
        last(i)  == CHOOSE j \in i..n :
                        (j = n \/ line[j + 1] = TAB) /\ \A l \in i..j : line[l] # TAB
    IN  [k \in 1..Cardinality(starts) |-> SubSeq(line, first(k), last(first(k)))]

\* The record branch for a stripped line: the spell_dict after all tokens
DecodeLine(line) ==
    DecodeTokens(spell_dict_init(Head(Tokens(line))), Tail(Tokens(line)))

(***************************************************************************)
(* SpellGenerator.load_spell_lst: merging a .MOD line                      *)
(***************************************************************************)
\* MergeClassList assigning the list, as the record branch does, instead of appending
MergeClassListAssign(level_list, class_list) == class_list

\* for caster in class_list: spell.classes[level].append(caster)
MergeClassList(level_list, class_list) == level_list \o class_list

\* the level groups of a .MOD line's CLASSES: token, appended to the spell
RECURSIVE AppendGroups(_, _)
AppendGroups(m, class_tokens) ==
    IF class_tokens = <<>> \/ m.raised THEN m
    ELSE LET g == LevelGroup(Head(class_tokens))
         IN  IF g.raised THEN [m EXCEPT !.raised = TRUE]
             ELSE AppendGroups(
                      [m EXCEPT !.spell.classes[g.pos] = MergeClassList(@, g.class_list)],
                      Tail(class_tokens))

\* class_suffix after a suffix of the token replaced it
ExtendSuffixReplacing(class_suffix, token) ==
    IF HasSuffix(Value(token)) THEN ClassSuffix(Value(token)) ELSE class_suffix

\* spell.fields['class_suffix'] += class_string[start:end + 1], when the value of
\* the token has a "[" and a "]"
ExtendSuffix(class_suffix, token) ==
    IF HasSuffix(Value(token)) THEN class_suffix \o ClassSuffix(Value(token))
    ELSE class_suffix

\* "for token in tokens" of the .MOD branch for one matching spell.  The list is
\* changed while it is iterated: after tokens.remove(token) the iterator's
\* position i moves on over the shortened list.
RECURSIVE MergeTokens(_, _)
MergeTokens(m, i) ==
    IF i > Len(m.tokens) \/ m.raised THEN m
    ELSE LET token == m.tokens[i]
         IN  IF StartsWith(token, TAG_CLASSES) /\ ~EndsWith(token, TAG_CLASSES)
             THEN LET m1 == AppendGroups(
                                [m EXCEPT !.spell.fields.class_suffix =
                                              ExtendSuffix(@, token)],
                                Split(ClassGroups(Value(token)), "|"))
                  IN  MergeTokens([m1 EXCEPT !.tokens = RemoveFirst(@, token)], i + 1)
             ELSE MergeTokens(m, i + 1)

\* NameMatches comparing as Spell.__eq__ does, ignoring letter case
NameMatchesAnyCase(spell_name, name) == Upper(spell_name) = Upper(name)

\* if spell.fields['name'] == name
NameMatches(spell_name, name) == spell_name = name

\* "for spell in spells" of the .MOD branch, from list position k on
RECURSIVE MergeSpells(_, _, _)
MergeSpells(r, name, k) ==
    IF k > Len(r.spells) \/ r.raised THEN r
    ELSE IF NameMatches(r.spells[k].fields.name, name)
         THEN LET m == MergeTokens([tokens |-> r.tokens, spell |-> r.spells[k],
                                    raised |-> FALSE], 1)
              IN  MergeSpells([tokens |-> m.tokens,
                               spells |-> [r.spells EXCEPT ![k] = m.spell],
                               raised |-> m.raised], name, k + 1)
         ELSE MergeSpells(r, name, k + 1)

\* the name a .MOD line is looked up by
ModName(line) == Remove(Head(Tokens(line)), MOD_MARK)

\* The .MOD branch for a stripped line
MergeLine(spell_list, line) ==
    MergeSpells([tokens |-> Tokens(line), spells |-> spell_list, raised |-> FALSE],
                ModName(line), 1)

\* ModsAfter without the test of len(tokens)
ModsAfterAlways(mod_list, tokens) == Append(mod_list, Join(tokens, <<TAB>>))

\* if len(tokens) > 1: mods.append("\t".join(tokens))
ModsAfter(mod_list, tokens) ==
    IF Len(tokens) > 1 THEN Append(mod_list, Join(tokens, <<TAB>>)) ELSE mod_list

(***************************************************************************)
(* The line classification of load_spell_lst                               *)
(***************************************************************************)
IsHeaderLine(line) == Count(line, SOURCELONG) > 0

IsModLine(line) == ~IsHeaderLine(line) /\ Count(line, MOD_MARK) > 0

IsSpellLine(line) ==
    ~IsHeaderLine(line) /\ ~IsModLine(line) /\ Len(line) > 0 /\ line[1] # "#"

(***************************************************************************)
(* The lines a document is made of                                         *)
(***************************************************************************)
\* a Pathfinder record; the name is followed by three tabs and the line ends in a newline
L_Fireball ==
    Join(<<<<"F","b">>,
          <<>>,
          <<>>,
          <<"T","Y","P","E",":","A","r","c","a","n","e">>,
          <<"C","L","A","S","S","E","S",":","W","i","z",",","S","o","r","=","3">>,
          <<"S","C","H","O","O","L",":","E","v","o">>,
          <<"C","O","M","P","S",":","V",",","S",",","M">>,
          <<"C","A","S","T","T","I","M","E",":","1"," ","a","c","t">>,
          <<"R","A","N","G","E",":","L","o","n","g">>,
          <<"D","U","R","A","T","I","O","N",":","I","n","s","t">>,
          <<"D","E","S","C",":","B","o","o","m",".","\n">>>>, <<TAB>>)

\* a record with a class suffix, target, spell resistance, descriptors and two unknown tokens
L_Cure ==
    Join(<<<<"C","u","r","e">>,
          <<"T","Y","P","E",":","D","i","v","i","n","e",".","P","s","y","c","h","i","c">>,
          <<"C","L","A","S","S","E","S",":","C","l","r","=","1","|","D","r","d","=","2","[","P","R","E",":","x","]">>,
          <<"S","C","H","O","O","L",":","C","o","n">>,
          <<"S","U","B","S","C","H","O","O","L",":","H","e","a","l">>,
          <<"C","O","M","P","S",":","V",",","S",",","F","/","D","F">>,
          <<"T","A","R","G","E","T","A","R","E","A",":","O","n","e">>,
          <<"S","P","E","L","L","R","E","S",":","Y","e","s">>,
          <<"S","A","V","E","I","N","F","O",":"," ","W","i","l","l"," ">>,
          <<"D","E","S","C","R","I","P","T","O","R",":","G","o","o","d","|","L","i","g","h","t">>,
          <<"F","A","C","T",":","C","o","m","p","|","d","u","s","t">>,
          <<"S","R","C",":","p","1">>>>, <<TAB>>)

\* a D&D 5e record: no classes, a material description
L_Bless ==
    Join(<<<<"B","l","e","s","s">>,
          <<"T","Y","P","E",":","D","i","v","i","n","e",".","S","p","e","l","l">>,
          <<"S","C","H","O","O","L",":","E","n","c">>,
          <<"C","O","M","P","S",":","V",",","M"," ","(","w","a","t","e","r",")">>,
          <<"C","A","S","T","T","I","M","E",":","1"," ","a","c","t">>,
          <<"R","A","N","G","E",":","3","0">>,
          <<"D","U","R","A","T","I","O","N",":","C","o","n","c">>>>, <<TAB>>)

\* a record with an unknown token that ends in CLASSES:
L_Hex ==
    Join(<<<<"H","e","x">>,
          <<"P","R","E","C","L","A","S","S","E","S",":">>,
          <<"S","C","H","O","O","L",":","N","e","c">>,
          <<"K","E","Y",":","v">>>>, <<TAB>>)

\* a record whose level is negative
L_Ice ==
    Join(<<<<"I","c","e">>,
          <<"C","L","A","S","S","E","S",":","W","i","z","=","-","1">>,
          <<"S","C","H","O","O","L",":","E","v","o">>>>, <<TAB>>)

\* a record whose level is not an integer
L_Dud ==
    Join(<<<<"D","u","d">>,
          <<"C","L","A","S","S","E","S",":","W","i","z","=","x">>>>, <<TAB>>)

\* a record whose description mentions .MOD
L_Orb ==
    Join(<<<<"O","r","b">>,
          <<"S","C","H","O","O","L",":","E","v","o">>,
          <<"D","E","S","C",":","s","e","e"," ","F","b",".","M","O","D">>>>, <<TAB>>)

\* a directive that carries only a CLASSES: token
L_ModWitch ==
    Join(<<<<"F","b",".","M","O","D">>,
          <<"C","L","A","S","S","E","S",":","W","i","t","c","h","=","3">>>>, <<TAB>>)

\* a directive naming a class the record already has, with one more token
L_ModWiz ==
    Join(<<<<"F","b",".","M","O","D">>,
          <<"C","L","A","S","S","E","S",":","W","i","z","=","3","|","M","a","g","u","s","=","4">>,
          <<"D","E","S","C",":","N","e","w">>>>, <<TAB>>)

\* a directive whose target differs from Fb in letter case only
L_ModUpper ==
    Join(<<<<"F","B",".","M","O","D">>,
          <<"C","L","A","S","S","E","S",":","B","a","r","d","=","2">>>>, <<TAB>>)

\* a directive whose target is in no line of the pool
L_ModZap ==
    Join(<<<<"Z","a","p",".","M","O","D">>,
          <<"C","L","A","S","S","E","S",":","B","a","r","d","=","2">>,
          <<"S","R","C",":","p","2">>>>, <<TAB>>)

\* a directive whose level is negative
L_ModNeg ==
    Join(<<<<"F","b",".","M","O","D">>,
          <<"C","L","A","S","S","E","S",":","B","a","r","d","=","-","1">>>>, <<TAB>>)

\* a directive whose level is above 9
L_ModTen ==
    Join(<<<<"F","b",".","M","O","D">>,
          <<"C","L","A","S","S","E","S",":","B","a","r","d","=","1","0">>>>, <<TAB>>)

\* a directive with two CLASSES: tokens
L_ModTwo ==
    Join(<<<<"F","b",".","M","O","D">>,
          <<"C","L","A","S","S","E","S",":","B","r","d","=","1">>,
          <<"C","L","A","S","S","E","S",":","D","r","d","=","2">>>>, <<TAB>>)

\* a header line
L_Header ==
    Join(<<<<"S","O","U","R","C","E","L","O","N","G",":","H","o","m","e">>,
          <<"S","O","U","R","C","E","S","H","O","R","T",":","H">>>>, <<TAB>>)

\* the marker line that generate_spell_lst writes
L_Comment ==
    Join(<<<<"#"," ","B","E","G","I","N"," ","M","O","D","S">>>>, <<TAB>>)

\* a blank line
L_Blank ==
    Join(<<<<"\n">>>>, <<TAB>>)

LinePool ==
    {L_Fireball,
     L_Cure,
     L_Bless,
     L_Hex,
     L_Ice,
     L_Dud,
     L_Orb,
     L_ModWitch,
     L_ModWiz,
     L_ModUpper,
     L_ModZap,
     L_ModNeg,
     L_ModTen,
     L_ModTwo,
     L_Header,
     L_Comment,
     L_Blank}

(***************************************************************************)
(* State                                                                   *)
(***************************************************************************)
VARIABLES
    pc,         \* load_spell_lst: "reading" its lines, "returned", or "raised"
    header,     \* load_spell_lst: header
    spells,     \* load_spell_lst: spells
    mods,       \* load_spell_lst: mods
    line,       \* load_spell_lst: the loop variable line, stripped
    nread,      \* number of lines the loop has taken from the file
    e_spell,    \* __str__: self
    e_mode,     \* __str__: self.mode
    e_k,        \* __str__: number of blocks executed
    e_st,       \* __str__: spell_string, excess_tabs and tabs after the last block
    system_mode,    \* SpellGenerator: system_mode.get()
    self_spell_list, \* SpellGenerator: spell_list, one list of Spells per mode
    self_mod_list,  \* SpellGenerator: mod_list
    self_header,    \* SpellGenerator: header, the empty string until a file is loaded
    spell_lb,       \* SpellGenerator: the names shown in the listbox spell_lb
    saved,          \* the text of the file save_spells wrote last, empty before
    op,             \* the callback that ran last, with what the user gave it
    nops,           \* number of callbacks run
    classes_lb,     \* SpellEditor: the entries of the listbox classes_lb, first on top
    type_values     \* SpellEditor: type_values, the state of the spell type checkboxes

loader_vars == <<pc, header, spells, mods, line, nread>>
enc_vars == <<e_spell, e_mode, e_k, e_st>>
app_vars == <<system_mode, self_spell_list, self_mod_list, self_header, spell_lb, saved, op, nops>>
ed_vars == <<classes_lb, type_values>>
vars == <<pc, header, spells, mods, line, nread, e_spell, e_mode, e_k, e_st,
          system_mode, self_spell_list, self_mod_list, self_header, spell_lb, saved, op, nops,
          classes_lb, type_values>>

\* number of lines of a document
MaxLines == 3

\* longest school name the encoder is run on
MaxSchoolLen == 30

Rep(c, n) == [i \in 1..n |-> c]

EncIdle ==
    /\ e_spell = Spell(spell_dict_init(<<>>))
    /\ e_mode = "Pathfinder 1e"
    /\ e_k = 0
    /\ e_st = [spell_string |-> <<>>, excess_tabs |-> 0, tabs |-> 0, padding |-> 0,
               debt_in |-> 0]

LoaderIdle ==
    /\ pc = "reading"
    /\ header = <<>>
    /\ spells = <<>>
    /\ mods = <<>>
    /\ line = <<>>
    /\ nread = 0

\* what op holds before any callback has run
NoOp ==
    [name |-> "none", asked |-> FALSE, answer |-> FALSE, wrote |-> FALSE,
     raised |-> FALSE, spell |-> Spell(spell_dict_init(<<>>))]

\* SpellGenerator.__init__ with no spells and no mods, default_system as shipped
AppIdle ==
    /\ system_mode = "Pathfinder 1e"
    /\ self_spell_list = [mode \in Modes |-> <<>>]
    /\ self_mod_list = <<>>
    /\ self_header = <<>>
    /\ spell_lb = <<>>
    /\ saved = <<>>
    /\ op = NoOp
    /\ nops = 0

\* SpellEditor.__init__: no class in the listbox, no spell type checked
EdIdle ==
    /\ classes_lb = <<>>
    /\ type_values = [arcane |-> FALSE, divine |-> FALSE, psychic |-> FALSE]

(***************************************************************************)
(* load_spell_lst, one action per branch of its loop body                  *)
(***************************************************************************)
Init == LoaderIdle /\ EncIdle /\ AppIdle /\ EdIdle

Take(raw) ==
    /\ pc = "reading"
    /\ nread < MaxLines
    /\ line' = Strip(raw)
    /\ nread' = nread + 1
    /\ UNCHANGED enc_vars
    /\ UNCHANGED app_vars
    /\ UNCHANGED ed_vars

\* if line.count("SOURCELONG") > 0: header = line
HeaderLine(raw) ==
    /\ Take(raw)
    /\ IsHeaderLine(Strip(raw))
    /\ header' = Strip(raw)
    /\ UNCHANGED <<pc, spells, mods>>

\* elif line.count(".MOD") > 0
ModLine(raw) ==
    /\ Take(raw)
    /\ IsModLine(Strip(raw))
    /\ LET r == MergeLine(spells, Strip(raw))
       IN  IF r.raised
           THEN pc' = "raised" /\ UNCHANGED <<spells, mods>>
           ELSE /\ spells' = r.spells
                /\ mods' = ModsAfter(mods, r.tokens)
                /\ pc' = pc
    /\ UNCHANGED header

\* elif len(line) > 0 and line[0] != "#"
SpellLine(raw) ==
    /\ Take(raw)
    /\ IsSpellLine(Strip(raw))
    /\ LET d == DecodeLine(Strip(raw))
       IN  IF d.raised
           THEN pc' = "raised" /\ UNCHANGED spells
           ELSE spells' = Append(spells, Spell(d)) /\ pc' = pc
    /\ UNCHANGED <<header, mods>>

\* a blank line or a comment: no branch is taken
SkipLine(raw) ==
    /\ Take(raw)
    /\ ~IsHeaderLine(Strip(raw)) /\ ~IsModLine(Strip(raw)) /\ ~IsSpellLine(Strip(raw))
    /\ UNCHANGED <<pc, header, spells, mods>>

\* return (header, spells, mods)
Return ==
    /\ pc = "reading"
    /\ pc' = "returned"
    /\ UNCHANGED <<header, spells, mods, line, nread>>
    /\ UNCHANGED enc_vars
    /\ UNCHANGED app_vars
    /\ UNCHANGED ed_vars

Next ==
    \/ \E raw \in LinePool : HeaderLine(raw)
    \/ \E raw \in LinePool : ModLine(raw)
    \/ \E raw \in LinePool : SpellLine(raw)
    \/ \E raw \in LinePool : SkipLine(raw)
    \/ Return

Spec == Init /\ [][Next]_vars

(***************************************************************************)
(* load_spell_lst on documents of record lines with repeated levels and    *)
(* with tokens that are a bare tag                                         *)
(***************************************************************************)
\* two level groups of one CLASSES: token name the same level
L_Twin ==
    Join(<<<<"T","w","i","n">>,
          <<"C","L","A","S","S","E","S",":","W","i","z","=","3","|","S","o","r","=","3">>,
          <<"S","C","H","O","O","L",":","E","v","o">>>>, <<TAB>>)

\* the same, with a group of another level between them
L_Trio ==
    Join(<<<<"T","r","i","o">>,
          <<"C","L","A","S","S","E","S",":","W","i","z","=","3","|","B","r","d","=","4","|","S","o","r","=","3">>>>, <<TAB>>)

L_Nil == Join(<<<<"N","i","l">>, <<"K","E","Y",":","v">>>>, <<TAB>>)

\* L_Nil with a token that is the tag alone
EmptyValueLine(tag) == Join(<<<<"N","i","l">>, tag, <<"K","E","Y",":","v">>>>, <<TAB>>)

DecPool ==
    {L_Twin, L_Trio, L_Nil, L_Fireball, L_Cure}
        \cup {EmptyValueLine(tag) :
                 tag \in {TAG_TYPE, TAG_CLASSES, TAG_SCHOOL, TAG_SUBSCHOOL, TAG_CASTTIME,
                          TAG_RANGE, TAG_DURATION, TAG_TARGETAREA, TAG_SAVEINFO,
                          TAG_SPELLRES, TAG_DESCRIPTOR, TAG_DESC, TAG_COMPS}}

NextDec ==
    \/ \E raw \in DecPool : SpellLine(raw)
    \/ Return

SpecDec == Init /\ [][NextDec]_vars

(***************************************************************************)
(* load_spell_lst on documents of records and directives, one of them with *)
(* a bracketed suffix in its CLASSES: token                                *)
(***************************************************************************)
\* a directive for Cure with a suffix and one more token
L_ModSuffix ==
    Join(<<<<"C","u","r","e",".","M","O","D">>,
          <<"C","L","A","S","S","E","S",":","B","r","d","=","2","[","P","R","E",":","y","]">>,
          <<"D","E","S","C",":","N","e","w">>>>, <<TAB>>)

ModPool == {L_Fireball, L_Cure, L_ModWitch, L_ModWiz, L_ModTwo, L_ModSuffix}

NextMod ==
    \/ \E raw \in ModPool : SpellLine(raw)
    \/ \E raw \in ModPool : ModLine(raw)
    \/ Return

SpecMod == Init /\ [][NextMod]_vars

(***************************************************************************)
(* Spell.__str__, one action per block                                     *)
(***************************************************************************)
EncSchools == {Rep("e", n) : n \in 0..MaxSchoolLen}

EncSubschools == {<<>>, <<"H","e","a","l">>, Rep("u", 20)}

EncNames == {<<"F","b">>, Rep("n", 43)}

EncSpells ==
    {Spell([spell_dict_init(name) EXCEPT !.school = school, !.subschool = subschool,
                                         !.casting_time = <<"1"," ","a","c","t">>,
                                         !.classes[4] = <<<<"W","i","z">>>>,
                                         !.arcane = TRUE, !.verbal = TRUE,
                                         !.desc = <<"B","o","o","m">>,
                                         !.other_fields = <<<<"S","R","C",":","p">>>>]) :
        name \in EncNames, school \in EncSchools, subschool \in EncSubschools}

\* the records with every combination of type flags and component flags, with and
\* without a material description
EncFlagSpells ==
    {Spell([spell_dict_init(<<"F","b">>) EXCEPT
                !.school = <<"E","v","o">>,
                !.arcane = type[1], !.divine = type[2], !.psychic = type[3],
                !.verbal = comps[1], !.somatic = comps[2], !.material = comps[3],
                !.focus = comps[4], !.divine_focus = comps[5],
                !.material_desc = material_desc]) :
        type \in BOOLEAN \X BOOLEAN \X BOOLEAN,
        comps \in BOOLEAN \X BOOLEAN \X BOOLEAN \X BOOLEAN \X BOOLEAN,
        material_desc \in {<<>>, <<"d","u","s","t">>}}

EncDescriptors3 == {<<>>, <<<<"F","i","r","e">>>>, <<<<"G","o","o","d">>, Rep("d", 45)>>}

EncOthers == {<<>>, <<<<"S","R","C",":","p">>>>,
              <<<<"S","R","C",":","p">>, <<"K","E","Y",":","v">>>>}

\* the records with and without a target, a spell resistance, descriptors, a
\* description and unrecognized tokens
EncTailSpells ==
    {Spell([spell_dict_init(<<"F","b">>) EXCEPT
                !.school = <<"E","v","o">>, !.arcane = TRUE,
                !.target = target, !.sr = sr, !.descriptors = descriptors,
                !.desc = desc, !.other_fields = other_fields]) :
        target \in {<<>>, <<"O","n","e">>}, sr \in {<<>>, <<"Y","e","s">>},
        descriptors \in EncDescriptors3,
        desc \in {<<>>, <<"B","o","o","m">>}, other_fields \in EncOthers}

\* the records with and without a casting time, a range, a duration and a saving
\* throw, some of them several columns wider than their nominal width
EncDebtSpells ==
    {Spell([spell_dict_init(name) EXCEPT
                !.casting_time = casting_time, !.range = range,
                !.duration = duration, !.save = save,
                !.classes[2] = classes, !.divine = TRUE]) :
        name \in EncNames,
        casting_time \in {<<>>, <<"1"," ","a","c","t">>, Rep("c", 64)},
        range \in {<<>>, <<"T","o","u","c","h">>},
        duration \in {<<>>, <<"I","n","s","t">>},
        save \in {<<>>, Rep("s", 50)},
        classes \in {<<>>, <<<<"C","l","r">>>>}}

\* the records with classes at none, one or several of the levels 0, 3 and 9, with
\* and without a class suffix
EncClassSpells ==
    {Spell([spell_dict_init(<<"F","b">>) EXCEPT
                !.school = <<"E","v","o">>, !.arcane = TRUE,
                !.classes[1] = level0, !.classes[4] = level3, !.classes[10] = level9,
                !.class_suffix = class_suffix]) :
        level0 \in {<<>>, <<<<"B","r","d">>>>},
        level3 \in {<<>>, <<<<"W","i","z">>, <<"S","o","r">>>>},
        level9 \in {<<>>, <<<<"C","l","r">>>>},
        class_suffix \in {<<>>, <<"[","P","R","E",":","x","]">>}}

\* the records that can follow in the list generate_spell_lst writes
EncFollowers ==
    {Spell([spell_dict_init(name) EXCEPT !.school = <<"E","v","o">>, !.arcane = TRUE]) :
        name \in EncNames}

InitEnc ==
    /\ LoaderIdle
    /\ AppIdle
    /\ EdIdle
    /\ e_spell \in EncSpells \cup EncFlagSpells \cup EncTailSpells \cup EncDebtSpells
                     \cup EncClassSpells
    /\ e_mode \in Modes
    /\ e_k = 0
    /\ e_st = [spell_string |-> <<>>, excess_tabs |-> 0, tabs |-> 0, padding |-> 0,
               debt_in |-> 0]

\* the block that runs next, "done" after the last one
Block == IF e_k = 0 THEN "name"
         ELSE IF e_k <= Len(Steps(e_mode)) THEN Steps(e_mode)[e_k]
         ELSE "done"

\* the block that ran last
LastBlock == IF e_k = 0 THEN "none"
             ELSE IF e_k = 1 THEN "name"
             ELSE Steps(e_mode)[e_k - 1]

Advance(st) ==
    /\ e_st' = st
    /\ e_k' = e_k + 1
    /\ UNCHANGED <<e_spell, e_mode>>
    /\ UNCHANGED loader_vars
    /\ UNCHANGED app_vars
    /\ UNCHANGED ed_vars

EncName == Block = "name" /\ Advance(StrName(e_spell))

EncType == Block = "type" /\ Advance(StrType(e_st, e_spell, e_mode))

EncSchool == Block = "school" /\ Advance(StrSchool(e_st, e_spell, e_mode))

EncSubschool == Block = "subschool" /\ Advance(StrSubschool(e_st, e_spell, e_mode))

EncField ==
    /\ Block \in {"casting_time", "range", "duration", "save", "sr", "target"}
    /\ Advance(StrField(e_st, e_spell, e_mode, Block))

EncComps == Block = "comps" /\ Advance(StrComps(e_st, e_spell, e_mode))

EncClasses == Block = "classes" /\ Advance(StrClasses(e_st, e_spell, e_mode))

EncDescriptors == Block = "descriptors" /\ Advance(StrDescriptors(e_st, e_spell, e_mode))

EncDesc == Block = "desc" /\ Advance(StrDesc(e_st, e_spell))

EncOther == Block = "other" /\ Advance(StrOther(e_st, e_spell))

\* generate_spell_lst goes on to the next spell of the list: str() starts again,
\* with the local variables of __str__ as they are before line 123
EncAgain ==
    /\ Block = "done"
    /\ e_spell' \in EncFollowers
    /\ e_k' = 0
    /\ e_st' = [spell_string |-> <<>>, excess_tabs |-> 0, tabs |-> 0, padding |-> 0,
                debt_in |-> 0]
    /\ UNCHANGED e_mode
    /\ UNCHANGED loader_vars
    /\ UNCHANGED app_vars
    /\ UNCHANGED ed_vars

NextEnc ==
    \/ EncName
    \/ EncType
    \/ EncSchool
    \/ EncSubschool
    \/ EncField
    \/ EncComps
    \/ EncClasses
    \/ EncDescriptors
    \/ EncDesc
    \/ EncOther
    \/ EncAgain

SpecEnc == InitEnc /\ [][NextEnc]_vars

(***************************************************************************)
(* SpellGenerator: files, load_spell_lst and generate_spell_lst as         *)
(* functions of a file's text                                              *)
(***************************************************************************)
NL == "\n"

\* f.readlines(), each line without its line terminator (the loop strips it)
ReadLines(text) ==
    LET pieces == Split(text, NL)
    IN  IF pieces[Len(pieces)] = <<>> THEN SubSeq(pieces, 1, Len(pieces) - 1)
        ELSE pieces

\* the triple r after the .MOD branch has returned m
AfterMod(r, m) ==
    IF m.raised THEN [r EXCEPT !.raised = TRUE]
    ELSE [r EXCEPT !.spells = m.spells, !.mods = ModsAfter(r.mods, m.tokens)]

\* the triple r after the record branch has built the spell_dict d
AfterSpell(r, d) ==
    IF d.raised THEN [r EXCEPT !.raised = TRUE]
    ELSE [r EXCEPT !.spells = Append(r.spells, Spell(d))]

\* the branches of the loop body for a stripped line
LoadStripped(r, stripped) ==
    IF IsHeaderLine(stripped) THEN [r EXCEPT !.header = stripped]
    ELSE IF IsModLine(stripped) THEN AfterMod(r, MergeLine(r.spells, stripped))
    ELSE IF IsSpellLine(stripped) THEN AfterSpell(r, DecodeLine(stripped))
    ELSE r

\* one iteration of "for line in lines" on the triple r
LoadLine(r, raw) == LoadStripped(r, Strip(raw))

\* "for line in lines" from line i on; the loop ends when an exception is raised
RECURSIVE LoadLines(_, _, _)
LoadLines(r, lines, i) ==
    IF i > Len(lines) \/ r.raised THEN r
    ELSE LoadLines(LoadLine(r, lines[i]), lines, i + 1)

\* load_spell_lst(filename) for a file with the given text: header, spells and
\* mods, or raised when an exception leaves the function
load_spell_lst(text) ==
    LoadLines([header |-> <<>>, spells |-> <<>>, mods |-> <<>>, raised |-> FALSE],
              ReadLines(text), 1)

\* str(datetime.datetime.now()).split(" ")[0] when the module was imported
Today == <<"2","0","2","2","-","0","7","-","1","4">>

\* the default of the parameter header of generate_spell_lst
DefaultHeader ==
    <<"S","O","U","R","C","E","L","O","N","G",":","H","o","m","e","b","r","e","w","\t">>
        \o <<"S","O","U","R","C","E","S","H","O","R","T",":","H","o","m","e","b","r","e","w","\t">>
        \o <<"S","O","U","R","C","E","W","E","B",":","N","o","n","e">>
        \o <<"\t", "#", "\t">> \o <<"S","O","U","R","C","E","D","A","T","E",":">> \o Today

BEGIN_MODS == <<"#"," ","B","E","G","I","N"," ","M","O","D","S">>

\* the lines written for the spells
RECURSIVE SpellLines(_, _, _)
SpellLines(spell_seq, mode, i) ==
    IF i > Len(spell_seq) THEN <<>>
    ELSE Str(spell_seq[i], mode) \o <<NL>> \o SpellLines(spell_seq, mode, i + 1)

\* the lines written for the mods
RECURSIVE ModLines(_, _)
ModLines(mod_seq, i) ==
    IF i > Len(mod_seq) THEN <<>>
    ELSE mod_seq[i] \o <<NL>> \o ModLines(mod_seq, i + 1)

\* generate_spell_lst: the text written to the file
generate_spell_lst(spell_seq, mod_seq, hdr, mode) ==
    hdr \o <<NL>> \o <<NL>> \o SpellLines(spell_seq, mode, 1)
        \o <<NL>> \o BEGIN_MODS \o <<NL>> \o ModLines(mod_seq, 1)

\* the text of a file with the given lines
FileOf(lines) == ModLines(lines, 1)

\* a record whose name differs from that of L_Fireball in letter case only
L_Upper ==
    Join(<<<<"F","B">>, <<"C","L","A","S","S","E","S",":","B","r","d","=","2">>, <<"S","C","H","O","O","L",":","N","e","c">>>>, <<TAB>>)

\* a document with a header, records, the marker and two directives
F_Home ==
    FileOf(<<L_Header, <<>>, L_Fireball, L_Cure, <<>>, L_Comment, L_ModZap, L_ModWitch>>)

\* a document without a header, with two records whose names differ in case
F_Case == FileOf(<<L_Upper, L_Fireball>>)

\* a document whose second record has a level that is no integer
F_Bad == FileOf(<<L_Header, L_Bless, L_Dud>>)

Files == {F_Home, F_Case, F_Bad}

\* the Spell SpellEditor.add_spell builds from the editing frame; desc is the
\* content of the Text widget, which get("1.0", "end") returns with a final newline
EditorSpell(name, school, desc) ==
    Spell([spell_dict_init(name) EXCEPT
               !.school = school, !.classes[3] = <<<<"B","r","d">>>>,
               !.casting_time = <<"1"," ","a","c","t">>, !.range = <<"T","o","u","c","h">>,
               !.duration = <<"I","n","s","t">>, !.desc = desc \o <<NL>>,
               !.divine = TRUE, !.verbal = TRUE])

\* what the user has typed: two names that differ in case only, and a description
\* of two lines
EditorSpells ==
    {EditorSpell(<<"F","b">>, <<"N","e","c">>, <<"N","e","w">>),
     EditorSpell(<<"F","B">>, <<"N","e","c">>, <<"N","e","w">>),
     EditorSpell(<<"Z","a","p">>, <<"E","v","o">>, <<"O","n","e",".",NL,"T","w","o",".">>)}

(***************************************************************************)
(* SpellGenerator, one action per callback                                 *)
(***************************************************************************)
\* number of callbacks run
MaxOps == 3

\* the names of the spells of a list, as the listbox shows them
Names(list) == [i \in 1..Len(list) |-> list[i].fields.name]

\* Spell.__eq__
SpellEq(a, b) == Upper(a.fields.name) = Upper(b.fields.name)

\* list.remove(s) for a list of Spells: the first element equal to s by __eq__ goes
RemoveSpellEq(list, s) ==
    LET i == CHOOSE k \in 1..Len(list) :
                 SpellEq(list[k], s) /\ \A j \in 1..(k - 1) : ~SpellEq(list[j], s)
    IN  SubSeq(list, 1, i - 1) \o SubSeq(list, i + 1, Len(list))

\* list.pop(index) and listbox.delete(index) for a 0-based index
DeleteAt(list, index) == SubSeq(list, 1, index) \o SubSeq(list, index + 2, Len(list))

\* what every callback does to the variables that count steps or belong elsewhere
Callback ==
    /\ nops < MaxOps
    /\ nops' = nops + 1
    /\ UNCHANGED loader_vars
    /\ UNCHANGED enc_vars

\* the mode is selected in the menu, then set_system runs
set_system(mode) ==
    /\ Callback
    /\ op' = [NoOp EXCEPT !.name = "set_system"]
    /\ system_mode' = mode
    /\ spell_lb' = Names(self_spell_list[mode])
    \* self.editor.destroy(); self.editor = SpellEditor(...)
    /\ classes_lb' = <<>>
    /\ type_values' = [arcane |-> FALSE, divine |-> FALSE, psychic |-> FALSE]
    /\ UNCHANGED <<self_spell_list, self_mod_list, self_header, saved>>

\* SpellGenerator.add_spell(spell); answer is the user's reply to "Overwrite?"
add_spell(spell, answer) ==
    LET list == self_spell_list[system_mode]
        dup  == {i \in 1..Len(list) : list[i].fields.name = spell.fields.name}
        s    == list[CHOOSE i \in dup : \A j \in dup : i <= j]
        shown == {i \in 1..Len(spell_lb) : spell_lb[i] = s.fields.name}
    IN  /\ Callback
        /\ op' = [NoOp EXCEPT !.name = "add_spell", !.asked = (dup # {}),
                              !.answer = answer, !.spell = spell]
        /\ IF dup = {}
           THEN /\ answer = FALSE
                /\ self_spell_list' = [self_spell_list EXCEPT ![system_mode] = Append(@, spell)]
                /\ spell_lb' = Append(spell_lb, spell.fields.name)
           ELSE IF ~answer
                THEN UNCHANGED <<self_spell_list, spell_lb>>
                ELSE IF shown = {}
                     \* index() raises ValueError after the spell was removed
                     THEN /\ self_spell_list' =
                                 [self_spell_list EXCEPT ![system_mode] = RemoveSpellEq(@, s)]
                          /\ UNCHANGED spell_lb
                     ELSE /\ self_spell_list' =
                                 [self_spell_list EXCEPT
                                      ![system_mode] = Append(RemoveSpellEq(@, s), spell)]
                          /\ spell_lb' =
                                 Append(DeleteAt(spell_lb,
                                                 (CHOOSE i \in shown : \A j \in shown : i <= j) - 1),
                                        spell.fields.name)
        /\ UNCHANGED <<system_mode, self_mod_list, self_header, saved>>
        /\ UNCHANGED ed_vars

\* remove_spell with the listbox selection index, -1 when nothing is selected
remove_spell(index) ==
    /\ Callback
    /\ op' = [NoOp EXCEPT !.name = "remove_spell"]
    /\ IF index < 0 \/ index >= Len(self_spell_list[system_mode])
       \* no selection, or pop raises IndexError
       THEN UNCHANGED <<self_spell_list, spell_lb>>
       ELSE /\ self_spell_list' = [self_spell_list EXCEPT ![system_mode] = DeleteAt(@, index)]
            /\ spell_lb' = DeleteAt(spell_lb, index)
    /\ UNCHANGED <<system_mode, self_mod_list, self_header, saved>>
    /\ UNCHANGED ed_vars

\* the lists if load_spells stored the loaded spells under every mode
ListsAfterLoadEveryMode(lists, mode, loaded) == [m \in Modes |-> loaded]

\* self.spell_list after load_spells has cleared or replaced the current mode's list
ListsAfterLoad(lists, mode, loaded) == [lists EXCEPT ![mode] = loaded]

\* what the user can do at the file dialog of load_spells: cancel it, or pick one
\* of the documents or the file save_spells wrote
FileChoices ==
    {[chosen |-> FALSE, text |-> <<>>]}
        \cup {[chosen |-> TRUE, text |-> t] :
                 t \in Files \cup (IF saved = <<>> THEN {} ELSE {saved})}

\* load_spells from the clearing of the lists on, r being what load_spell_lst did
StoreLoaded(r) ==
    IF r.raised
    \* the lists were cleared before load_spell_lst raised
    THEN /\ self_spell_list' = ListsAfterLoad(self_spell_list, system_mode, <<>>)
         /\ self_mod_list' = <<>>
         /\ UNCHANGED <<self_header, spell_lb>>
    ELSE /\ self_spell_list' = ListsAfterLoad(self_spell_list, system_mode, r.spells)
         /\ self_mod_list' = r.mods
         /\ self_header' = r.header
         /\ spell_lb' = Names(r.spells)

\* load_spells; choice.chosen is whether the user picked a file, choice.text the
\* file's text
load_spells(choice) ==
    /\ Callback
    /\ op' = [NoOp EXCEPT !.name = "load_spells", !.asked = choice.chosen,
                          !.raised = (choice.chosen /\ load_spell_lst(choice.text).raised)]
    /\ IF ~choice.chosen
       THEN UNCHANGED <<self_spell_list, self_mod_list, self_header, spell_lb>>
       ELSE StoreLoaded(load_spell_lst(choice.text))
    /\ UNCHANGED <<system_mode, saved>>
    /\ UNCHANGED ed_vars

\* save_spells; proceed is whether the user gave a file name and did not cancel at
\* the warning about overwriting a file of another origin
save_spells(proceed) ==
    /\ Callback
    /\ op' = [NoOp EXCEPT !.name = "save_spells", !.asked = proceed,
                          !.wrote = (proceed /\ Len(self_spell_list[system_mode]) > 0)]
    /\ IF Len(self_spell_list[system_mode]) = 0 \/ ~proceed
       THEN UNCHANGED saved
       ELSE saved' = generate_spell_lst(self_spell_list[system_mode], self_mod_list,
                                       DefaultHeader, system_mode)
    /\ UNCHANGED <<system_mode, self_spell_list, self_mod_list, self_header, spell_lb>>
    /\ UNCHANGED ed_vars

NextApp ==
    \/ \E mode \in Modes : set_system(mode)
    \/ \E spell \in EditorSpells, answer \in BOOLEAN : add_spell(spell, answer)
    \/ \E index \in -1..(Len(spell_lb) - 1) : remove_spell(index)
    \/ \E choice \in FileChoices : load_spells(choice)
    \/ \E proceed \in BOOLEAN : save_spells(proceed)

SpecApp == Init /\ [][NextApp]_vars

(***************************************************************************)
(* SpellEditor, one action per callback; the editor works in the mode of   *)
(* the generator, which set_system gives it anew                           *)
(***************************************************************************)
Wizard == <<"W","i","z","a","r","d">>
Sorcerer == <<"S","o","r","c","e","r","e","r">>
Bard == <<"B","a","r","d">>
Cleric == <<"C","l","e","r","i","c">>
Abjuration == <<"A","b","j","u","r","a","t","i","o","n">>

\* SpellEditor.caster_type as __init__ fills it for the mode; a mode whose dict has
\* no 'psychic' key has no psychic caster
caster_type(mode) ==
    IF mode = "Pathfinder 1e"
    THEN [arcane  |-> <<<<"A","l","c","h","e","m","i","s","t">>,
                        <<"B","a","r","d">>,
                        <<"B","l","o","o","d","r","a","g","e","r">>,
                        <<"M","a","g","u","s">>,
                        <<"S","u","m","m","o","n","e","r">>,
                        <<"W","i","t","c","h">>,
                        <<"W","i","z","a","r","d">>>>,
          divine  |-> <<<<"A","n","t","i","p","a","l","a","d","i","n">>,
                        <<"C","l","e","r","i","c">>,
                        <<"D","r","u","i","d">>,
                        <<"H","u","n","t","e","r">>,
                        <<"I","n","q","u","i","s","i","t","o","r">>,
                        <<"P","a","l","a","d","i","n">>,
                        <<"R","a","n","g","e","r">>,
                        <<"S","h","a","m","a","n">>>>,
          psychic |-> <<<<"M","e","d","i","u","m">>,
                        <<"M","e","s","m","e","r","i","s","t">>,
                        <<"O","c","c","u","l","t","i","s","t">>,
                        <<"P","s","y","c","h","i","c">>,
                        <<"S","p","i","r","i","t","u","a","l","i","s","t">>>>]
    ELSE IF mode = "D&D 3.5e"
    THEN [arcane  |-> <<<<"B","a","r","d">>,
                        <<"W","i","z","a","r","d">>>>,
          divine  |-> <<<<"B","l","a","c","k","g","u","a","r","d">>,
                        <<"C","l","e","r","i","c">>,
                        <<"D","r","u","i","d">>,
                        <<"P","a","l","a","d","i","n">>>>,
          psychic |-> <<>>]
    ELSE [arcane  |-> <<<<"A","r","t","i","f","i","c","e","r">>,
                        <<"B","a","r","d">>,
                        <<"S","o","r","c","e","r","e","r">>,
                        <<"W","a","r","l","o","c","k">>,
                        <<"W","a","r","l","o","c","k"," ","B","o","o","k"," ","o","f"," ","S","h","a","d","o","w","s">>,
                        <<"W","i","z","a","r","d">>>>,
          divine  |-> <<<<"C","l","e","r","i","c">>,
                        <<"D","r","u","i","d">>,
                        <<"P","a","l","a","d","i","n">>,
                        <<"R","a","n","g","e","r">>>>,
          psychic |-> <<>>]

\* the keys of type_values and of caster_type, in the order of the dict
TypeKeys(mode) ==
    IF mode = "Pathfinder 1e" THEN <<"arcane", "divine", "psychic">>
    ELSE <<"arcane", "divine">>

\* x in t, for a tuple t of strings
InTuple(x, t) == \E i \in 1..Len(t) : t[i] = x

\* str.lower()
Lower(s) ==
    [i \in 1..Len(s) |->
        IF \E k \in 1..26 : UpperCase[k] = s[i]
        THEN LowerCase[CHOOSE k \in 1..26 : UpperCase[k] = s[i]]
        ELSE s[i]]

\* value.lower().capitalize()
LowerCapitalize(value) ==
    IF value = <<>> THEN <<>>
    ELSE Upper(<<Head(value)>>) \o Lower(Tail(value))

\* the classes the user picks in the dropdown: some of the casters of the mode
EdClasses(mode) ==
    IF mode = "Pathfinder 1e" THEN {Wizard, Bard, Cleric, Psychic}
    ELSE IF mode = "D&D 3.5e" THEN {Wizard, Bard, Cleric}
    ELSE {Wizard, Sorcerer, Cleric}

\* what spell_level_spinbox.get() gives
EdLevels == {<<"1">>, <<"3">>}

\* entry.split(":")[0]
ClassOfEntry(class_entry) == Split(class_entry, ":")[1]

\* type_values after select() on every type of TypeKeys whose casters hold class_name
SelectTypes(values, mode, class_name) ==
    [t \in {"arcane", "divine", "psychic"} |->
        IF InTuple(t, TypeKeys(mode)) /\ InTuple(class_name, caster_type(mode)[t])
        THEN TRUE ELSE values[t]]

\* SpellEditor.add_class with the class of the dropdown and the text of the spinbox
add_class(selected_class, level) ==
    LET class_string == selected_class \o <<":">> \o level
        class_already_in_list ==
            \E i \in 1..Len(classes_lb) : Count(classes_lb[i], selected_class) > 0
    IN  /\ Callback
        /\ op' = [NoOp EXCEPT !.name = "add_class"]
        /\ IF class_already_in_list
           THEN UNCHANGED ed_vars
           ELSE /\ classes_lb' =
                       IF Count(class_string, Wizard) > 0
                              /\ system_mode \in {"Pathfinder 1e", "D&D 3.5e"}
                       THEN <<Sorcerer \o <<":">> \o level, class_string>> \o classes_lb
                       ELSE <<class_string>> \o classes_lb
                /\ type_values' =
                       SelectTypes(type_values, system_mode, ClassOfEntry(class_string))
        /\ UNCHANGED <<system_mode, self_spell_list, self_mod_list, self_header, spell_lb,
                       saved>>

\* the listbox without its first entry that holds the string partner, if any
DeleteFirstWith(lb, partner) ==
    IF \E i \in 1..Len(lb) : Count(lb[i], partner) > 0
    THEN DeleteAt(lb, (CHOOSE i \in 1..Len(lb) :
                           /\ Count(lb[i], partner) > 0
                           /\ \A j \in 1..(i - 1) : Count(lb[j], partner) = 0) - 1)
    ELSE lb

\* remove_class: the listbox after the selected entry, and in Pathfinder 1e and
\* D&D 3.5e the partner of a Wizard or a Sorcerer, are deleted
ClassesAfterRemove(lb, mode, index) ==
    LET class_name == ClassOfEntry(lb[index + 1])
        rest       == DeleteAt(lb, index)
    IN  IF mode \in {"Pathfinder 1e", "D&D 3.5e"} /\ class_name = Wizard
        THEN DeleteFirstWith(rest, Sorcerer)
        ELSE IF mode \in {"Pathfinder 1e", "D&D 3.5e"} /\ class_name = Sorcerer
        THEN DeleteFirstWith(rest, Wizard)
        ELSE rest

\* some entry of the listbox names a caster of the type
CastersRemaining(lb, mode, spell_type) ==
    \E i \in 1..Len(lb) : InTuple(ClassOfEntry(lb[i]), caster_type(mode)[spell_type])

\* remove_class: the first type whose casters hold class_name is unchecked when
\* no caster of it remains, and the loop breaks
DeselectTypes(values, mode, class_name, lb) ==
    LET keys == TypeKeys(mode)
        hit  == {k \in 1..Len(keys) : InTuple(class_name, caster_type(mode)[keys[k]])}
    IN  IF hit = {} THEN values
        ELSE LET spell_type == keys[CHOOSE k \in hit : \A j \in hit : k <= j]
             IN  IF CastersRemaining(lb, mode, spell_type) THEN values
                 ELSE [values EXCEPT ![spell_type] = FALSE]

\* SpellEditor.remove_class with the listbox selection index, -1 when nothing is
\* selected
remove_class(index) ==
    /\ Callback
    /\ op' = [NoOp EXCEPT !.name = "remove_class",
                          !.asked = (index >= 0 /\ index < Len(classes_lb))]
    /\ IF index < 0 \/ index >= Len(classes_lb)
       THEN UNCHANGED ed_vars
       ELSE /\ classes_lb' = ClassesAfterRemove(classes_lb, system_mode, index)
            /\ type_values' =
                   DeselectTypes(type_values, system_mode, ClassOfEntry(classes_lb[index + 1]),
                                 ClassesAfterRemove(classes_lb, system_mode, index))
    /\ UNCHANGED <<system_mode, self_spell_list, self_mod_list, self_header, spell_lb, saved>>

\* populate_fields: one entry class_name + ":" + str(level) per class, by level
ClassEntries(spell) ==
    LET RECURSIVE From(_)
        From(level) ==
            IF level > 9 THEN <<>>
            ELSE [i \in 1..Len(spell.classes[level + 1]) |->
                     spell.classes[level + 1][i] \o <<":">> \o StrLevel(level)]
                 \o From(level + 1)
    IN  From(0)

\* populate_fields: the checkboxes of the mode take the types of the spell
TypesOf(values, mode, spell) ==
    [t \in {"arcane", "divine", "psychic"} |->
        IF InTuple(t, TypeKeys(mode)) THEN spell.type[t] ELSE values[t]]

\* SpellGenerator.edit_spell with the selection index of spell_lb, -1 when nothing is
\* selected; an index past the end of the spell list raises IndexError
edit_spell(index) ==
    /\ Callback
    /\ op' = [NoOp EXCEPT !.name = "edit_spell"]
    /\ IF index < 0 \/ index >= Len(self_spell_list[system_mode])
       THEN UNCHANGED ed_vars
       ELSE /\ classes_lb' = ClassEntries(self_spell_list[system_mode][index + 1])
            /\ type_values' =
                   TypesOf(type_values, system_mode, self_spell_list[system_mode][index + 1])
    /\ UNCHANGED <<system_mode, self_spell_list, self_mod_list, self_header, spell_lb, saved>>

\* what the user has typed into the Entry widgets of the name, the casting time,
\* the range and the duration: nothing, a blank, or a value
EdEntries ==
    [name         : {<<>>, <<" ">>, <<"Z","a","p">>},
     casting_time : {<<>>, <<" ">>, <<"1"," ","a","c","t">>},
     range        : {<<>>, <<" ">>, <<"t","o","u","c","h">>},
     duration     : {<<>>, <<" ">>, <<"I","n","s","t">>}]

\* SpellEditor.add_spell: class_level_list[int(class_level)].append(class_name) for
\* the entries of the listbox from the top
class_level_list(lb) ==
    [level \in 1..10 |->
        LET AtLevel(class_entry) == PyInt(Split(class_entry, ":")[2]).val = level - 1
        IN  [i \in 1..Len(SelectSeq(lb, AtLevel)) |->
                ClassOfEntry(SelectSeq(lb, AtLevel)[i])]]

\* SpellEditor.add_spell: one of the checks of the widgets shows its error
Rejected(entries, lb) ==
    \/ Len(entries.name) = 0
    \/ Len(lb) = 0
    \/ Len(entries.casting_time) = 0
    \/ Len(entries.duration) = 0
    \/ Len(entries.range) = 0

\* SpellEditor.add_spell: the Spell built from the widgets, every widget but the
\* four Entry widgets, the class listbox and the type checkboxes as __init__ left it
BuiltSpell(entries, lb, values, mode) ==
    LET spell == Spell([spell_dict_init(entries.name) EXCEPT
                            !.classes = class_level_list(lb),
                            !.school = Abjuration,
                            !.casting_time = entries.casting_time,
                            !.range = entries.range,
                            !.duration = entries.duration,
                            !.desc = <<NL>>])
    IN  [spell EXCEPT
            !.fields.range = IF Strip(entries.range) = <<>> THEN @
                             ELSE LowerCapitalize(Strip(entries.range)),
            !.fields.duration = IF Strip(entries.duration) # <<>> /\ mode = "D&D 5e"
                                THEN LowerCapitalize(Strip(entries.duration)) ELSE @,
            !.type = TypesOf(@, mode, [type |-> values]),
            !.fields.sr = IF mode # "D&D 5e" THEN <<"N","o","n","e">> ELSE @,
            !.fields.subschool = <<>>]

\* SpellEditor.add_spell; answer is the user's reply to "Overwrite?" of
\* SpellGenerator.add_spell
SpellEditor_add_spell(entries, answer) ==
    IF Rejected(entries, classes_lb)
    THEN /\ Callback
         /\ answer = FALSE
         /\ op' = [NoOp EXCEPT !.name = "rejected"]
         /\ UNCHANGED <<system_mode, self_spell_list, self_mod_list, self_header, spell_lb,
                        saved>>
         /\ UNCHANGED ed_vars
    ELSE add_spell(BuiltSpell(entries, classes_lb, type_values, system_mode), answer)

NextEd ==
    \/ \E mode \in Modes : set_system(mode)
    \/ \E selected_class \in EdClasses(system_mode), level \in EdLevels :
           add_class(selected_class, level)
    \/ \E index \in -1..(Len(classes_lb) - 1) : remove_class(index)
    \/ \E index \in -1..(Len(spell_lb) - 1) : edit_spell(index)
    \/ \E entries \in EdEntries, answer \in BOOLEAN : SpellEditor_add_spell(entries, answer)

SpecEd == Init /\ [][NextEd]_vars

(***************************************************************************)
(* Properties of load_spell_lst                                            *)
(***************************************************************************)
IsPrefix(a, b) == Len(a) <= Len(b) /\ \A i \in 1..Len(a) : a[i] = b[i]

Max(a, b) == IF a >= b THEN a ELSE b

\* The loop has just decoded the record line held in line
JustDecoded == pc = "reading" /\ nread > 0 /\ IsSpellLine(line)

\* the record decoded from line
FirstDecode == spells[Len(spells)]

\* The step takes a line and handles it in the .MOD branch
ModStep == nread' = nread + 1 /\ IsModLine(line')

\* a token the .MOD branch and the record branch parse as a CLASSES: token
IsClassesToken(token) == StartsWith(token, TAG_CLASSES) /\ ~EndsWith(token, TAG_CLASSES)

ClassesTokens(tokens) == {i \in 1..Len(tokens) : IsClassesToken(tokens[i])}

\* the tokens at the positions outside drop, in order
RECURSIVE Without(_, _, _)
Without(tokens, drop, i) ==
    IF i > Len(tokens) THEN <<>>
    ELSE (IF i \in drop THEN <<>> ELSE <<tokens[i]>>) \o Without(tokens, drop, i + 1)

\* the records a directive named name is aimed at, by exact name
Targets(list, name) == {k \in 1..Len(list) : list[k].fields.name = name}

\* the level groups of a CLASSES: token
GroupsOf(token) == Split(ClassGroups(Value(token)), "|")

\* a level group with a level that is an integer in 0..9
WellFormedGroup(g) ==
    /\ Len(SplitMax1(g, "=")) = 2
    /\ PyInt(SplitMax1(g, "=")[2]).ok
    /\ PyInt(SplitMax1(g, "=")[2]).val \in 0..9

\* the classes the groups name for level, in the order of the groups
RECURSIVE NamedAt(_, _)
NamedAt(groups, level) ==
    IF groups = <<>> THEN <<>>
    ELSE (IF PyInt(SplitMax1(Head(groups), "=")[2]).val = level
          THEN Split(SplitMax1(Head(groups), "=")[1], ",") ELSE <<>>)
         \o NamedAt(Tail(groups), level)

\* the line that str(spell) is in the given mode, as the loop would see it
Reencoded(spell, mode) == Strip(Str(spell, mode))

\* the fields every mode writes
SameCommon(a, b) ==
    /\ a.fields.name = b.fields.name
    /\ a.classes = b.classes
    /\ a.descriptors = b.descriptors
    /\ a.type.arcane = b.type.arcane /\ a.type.divine = b.type.divine
    /\ a.comps.verbal = b.comps.verbal /\ a.comps.somatic = b.comps.somatic
    /\ a.comps.material = b.comps.material
    /\ \A f \in {"school", "subschool", "casting_time", "range", "duration", "save", "desc"} :
           a.fields[f] = b.fields[f]

\* the fields only Pathfinder 1e and D&D 3.5e write
SameFocusTargetSr(a, b) ==
    /\ a.comps.focus = b.comps.focus /\ a.comps.divine_focus = b.comps.divine_focus
    /\ a.fields.target = b.fields.target /\ a.fields.sr = b.fields.sr

\* C1 as stated: in each of the three modes, decoding a record line, encoding the
\* Spell and decoding the output again gives the same name, classes per level,
\* type flags, component flags, descriptors and text fields as the first decode.
C1_RoundTripEveryMode ==
    JustDecoded =>
        \A mode \in Modes :
            LET first  == FirstDecode
                out    == Reencoded(first, mode)
                dict   == DecodeLine(out)
                second == Spell(dict)
            IN  /\ IsSpellLine(out) /\ ~dict.raised
                /\ SameCommon(first, second)
                /\ SameFocusTargetSr(first, second)
                /\ first.type.psychic = second.type.psychic
                /\ first.fields.material_desc = second.fields.material_desc

\* C1 amended: the round trip preserves, in every mode, the name, the classes per
\* level, the descriptors, the arcane and divine flags, the verbal, somatic and
\* material flags, school, subschool, casting time, range, duration, save and
\* description; the psychic flag in Pathfinder 1e only; focus, divine focus, target
\* and spell resistance in Pathfinder 1e and D&D 3.5e only; the material description
\* in D&D 5e only, and there when the material flag is set.
C1_RoundTripWrittenFields ==
    JustDecoded =>
        \A mode \in Modes :
            LET first  == FirstDecode
                out    == Reencoded(first, mode)
                dict   == DecodeLine(out)
                second == Spell(dict)
            IN  /\ IsSpellLine(out) /\ ~dict.raised
                /\ SameCommon(first, second)
                /\ mode # "D&D 5e" => SameFocusTargetSr(first, second)
                /\ mode = "Pathfinder 1e" => first.type.psychic = second.type.psychic
                /\ (mode = "D&D 5e" /\ first.comps.material) =>
                       first.fields.material_desc = second.fields.material_desc

\* a record with a target, spell resistance, a focus and the psychic flag was decoded
C1_Witness ==
    /\ JustDecoded
    /\ FirstDecode.fields.target # <<>> /\ FirstDecode.fields.sr # <<>>
    /\ FirstDecode.type.psychic /\ FirstDecode.comps.focus
    /\ Len(FirstDecode.descriptors) = 2

RecognizedTags ==
    {TAG_TYPE, TAG_CLASSES, TAG_SCHOOL, TAG_SUBSCHOOL, TAG_CASTTIME, TAG_RANGE,
     TAG_DURATION, TAG_TARGETAREA, TAG_SAVEINFO, TAG_SPELLRES, TAG_DESCRIPTOR,
     TAG_DESC, TAG_COMPS}

\* the positions of the tokens after the name that start with no recognized tag
UnknownTokens(tokens) ==
    {i \in 2..Len(tokens) : \A tag \in RecognizedTags : ~StartsWith(tokens[i], tag)}

\* the tokens after the name that start with no recognized tag, in order
Unknown(tokens) == Without(tokens, (1..Len(tokens)) \ UnknownTokens(tokens), 1)

\* C2: every token of a record line that starts with no recognized tag is stored in
\* other_fields, in the order of the line, and every mode's encoding of the record
\* has exactly those tokens, verbatim and in that order, as its unrecognized tokens.
C2_UnknownTokensPreserved ==
    JustDecoded =>
        /\ FirstDecode.other_fields = Unknown(Tokens(line))
        /\ \A mode \in Modes :
               Unknown(Tokens(Reencoded(FirstDecode, mode))) = Unknown(Tokens(line))

\* C3: a step that handles a .MOD line leaves the number of records as it is, and
\* the class list of every level of every record is afterwards the old list with
\* zero or more classes appended: no class is removed or replaced.
C3_MergeAdditiveOnly ==
    [][ModStep =>
           /\ Len(spells') = Len(spells)
           /\ \A k \in 1..Len(spells) : \A level \in 1..10 :
                  IsPrefix(spells[k].classes[level], spells'[k].classes[level])]_vars

\* a .MOD line has just added a third class to a level that had two
C3_Witness ==
    /\ pc = "reading" /\ IsModLine(line)
    /\ \E k \in 1..Len(spells) :
           /\ spells[k].fields.name = ModName(line)
           /\ Len(spells[k].classes[4]) >= 3

\* a directive with exactly one CLASSES: token that has a value, every level of
\* it an integer in 0..9
OneClassesToken(tokens) ==
    /\ Cardinality(ClassesTokens(tokens)) = 1
    /\ \A i \in ClassesTokens(tokens) :
           LET groups == GroupsOf(tokens[i])
           IN  \A j \in 1..Len(groups) : WellFormedGroup(groups[j])

\* The step handles, without an error, a .MOD line with one such CLASSES: token
\* whose target name is the name of a decoded record
C4_Case ==
    /\ ModStep /\ pc' = "reading"
    /\ OneClassesToken(Tokens(line'))
    /\ Targets(spells, ModName(line')) # {}

\* the first record of the list with the name
FirstTarget(list, name) ==
    CHOOSE k \in Targets(list, name) : \A j \in Targets(list, name) : k <= j

\* the classes of a record with those of the directive's CLASSES: token appended
WithClassesOf(classes, tokens) ==
    LET i == CHOOSE c \in ClassesTokens(tokens) : TRUE
    IN  [level \in 1..10 |-> classes[level] \o NamedAt(GroupsOf(tokens[i]), level - 1)]

\* the modification lines with the directive's tokens other than its CLASSES: tokens
\* added as one entry, when more than one token is left
WithRestOf(mod_list, tokens) ==
    LET rest == Without(tokens, ClassesTokens(tokens), 1)
    IN  IF Len(rest) > 1 THEN Append(mod_list, Join(rest, <<TAB>>)) ELSE mod_list

C5_Case == ModStep /\ Targets(spells, ModName(line')) = {}

\* the modification lines with all the directive's tokens added as one entry, when
\* it has more than one token
WithAllOf(mod_list, tokens) ==
    IF Len(tokens) > 1 THEN Append(mod_list, Join(tokens, <<TAB>>)) ELSE mod_list

\* C5 as stated: such a line changes no record, and the modification lines get its
\* tokens without the CLASSES: token (the CLASSES: token is dropped).
C5_UnmatchedDropsClassesToken ==
    [][C5_Case => spells' = spells /\ mods' = WithRestOf(mods, Tokens(line'))]_vars

\* C5 amended: such a line changes no record and raises no error, and its CLASSES:
\* token is kept: when the line has a token besides its name, all its tokens, the
\* CLASSES: token included, are appended to the modification lines as one entry
\* joined by tabs; otherwise nothing is appended.
C5_UnmatchedKeepsEveryToken ==
    [][C5_Case =>
           /\ spells' = spells
           /\ pc' = "reading"
           /\ mods' = WithAllOf(mods, Tokens(line'))]_vars

\* a directive without a target was handled while records were loaded, and the
\* modification lines end with an entry that holds its CLASSES: token
C5_Witness ==
    /\ pc = "reading" /\ IsModLine(line)
    /\ Len(spells) > 0
    /\ Targets(spells, ModName(line)) = {}
    /\ Len(mods) > 0 /\ mods[Len(mods)] = line
    /\ Count(line, TAG_CLASSES) > 0

\* C6: a .MOD line with a CLASSES: token, whose target name equals the name of a
\* decoded record up to letter case, finds that record: its classes are merged.
C6_LookupIgnoresCase ==
    [][(/\ ModStep /\ pc' = "reading"
        /\ ClassesTokens(Tokens(line')) # {}
        /\ \E k \in 1..Len(spells) :
               Upper(spells[k].fields.name) = Upper(ModName(line')))
           => \E k \in 1..Len(spells) :
                  /\ Upper(spells[k].fields.name) = Upper(ModName(line'))
                  /\ spells'[k].classes # spells[k].classes]_vars

\* a CLASSES: token with a level group whose level is missing, is no integer, or is
\* an integer outside 0..9
Malformed(token) ==
    \E j \in 1..Len(GroupsOf(token)) : ~WellFormedGroup(GroupsOf(token)[j])

HasMalformed(tokens) == \E i \in ClassesTokens(tokens) : Malformed(tokens[i])

\* C7: a record line, or a .MOD line with a decoded target, that has a CLASSES:
\* token with a malformed level group makes load_spell_lst fail.
C7_MalformedLevelFails ==
    [][(/\ nread' = nread + 1
        /\ \/ IsSpellLine(line')
           \/ IsModLine(line') /\ Targets(spells, ModName(line')) # {}
        /\ HasMalformed(Tokens(line')))
           => pc' = "raised"]_vars

\* C8: a line that is not the header is handled as a directive (no record is added)
\* exactly when its first token ends in ".MOD"; any other non-empty line that does
\* not start with "#" adds exactly one record and no modification line, unless
\* decoding it fails.
C8_LineClassification ==
    [][(/\ nread' = nread + 1 /\ pc' = "reading"
        /\ Len(line') > 0 /\ ~IsHeaderLine(line'))
           => IF EndsWith(Head(Tokens(line')), MOD_MARK)
              THEN Len(spells') = Len(spells)
              ELSE IF line'[1] # "#"
                   THEN Len(spells') = Len(spells) + 1 /\ mods' = mods
                   ELSE spells' = spells /\ mods' = mods]_vars

\* C9: no class name occurs twice in the list of one level of a record.
C9_NoDuplicateClass ==
    \A k \in 1..Len(spells) : \A level \in 1..10 :
        \A i, j \in 1..Len(spells[k].classes[level]) :
            i # j => spells[k].classes[level][i] # spells[k].classes[level][j]

(***************************************************************************)
(* Properties of Spell.__str__                                             *)
(***************************************************************************)
\* by how many tab units the SCHOOL: token exceeds its nominal width
SchoolOverflow ==
    IntDiv(Len(TAG_SCHOOL \o e_spell.fields.school), PCGEN_TAB_SIZE)
        - field_width(e_mode).school

\* C10: when the SCHOOL: token is longer than its nominal width and the name left no
\* debt, the tabs written after SUBSCHOOL are its computed padding less the
\* overflow of SCHOOL, and never fewer than none.
C10_SchoolDebtReducesSubschool ==
    (/\ LastBlock = "subschool"
     /\ Len(e_spell.fields.name) <= 6 * PCGEN_TAB_SIZE
     /\ Len(e_spell.fields.school) > 0
     /\ SchoolOverflow > 0)
        => e_st.tabs = Max(0, e_st.padding - SchoolOverflow)

\* __str__ has run to its end
EncDone == Block = "done"

\* the tokens of str(self)
EncTokens == Tokens(Strip(e_st.spell_string))

\* C11: in every mode, no tag-token of the encoded line of a record has an empty
\* value: after the name, no token of the line is a bare tag.
C11_NoEmptyTagToken ==
    EncDone =>
        \A i \in 2..Len(EncTokens) : \A tag \in RecognizedTags : EncTokens[i] # tag

\* C12: in D&D 5e mode the encoded line has no TARGETAREA:, SPELLRES: or DESCRIPTOR:
\* token, whatever target, spell resistance and descriptors the record holds.
C12_FifthEditionOmits ==
    (EncDone /\ e_mode = "D&D 5e") =>
        \A i \in 1..Len(EncTokens) :
            \A tag \in {TAG_TARGETAREA, TAG_SPELLRES, TAG_DESCRIPTOR} :
                ~StartsWith(EncTokens[i], tag)

\* what the description adds to the line
DescTail(spell) ==
    IF spell.fields.desc = <<>> THEN <<>>
    ELSE <<TAB, TAB>> \o TAG_DESC \o spell.fields.desc

\* what the other fields from the i-th on add to the line
RECURSIVE OtherTail(_, _)
OtherTail(other_fields, i) ==
    IF i > Len(other_fields) THEN <<>>
    ELSE (IF other_fields[i] = <<>> THEN <<>> ELSE <<TAB, TAB>> \o other_fields[i])
         \o OtherTail(other_fields, i + 1)

\* what the block about to run adds, when it is one of the last two
TailOf(spell, block) ==
    IF block = "desc" THEN DescTail(spell) ELSE OtherTail(spell.other_fields, 1)

\* C17: the last two blocks of the encoder are DESC: and the other fields; the DESC:
\* block appends two tabs and the DESC: token, the last block appends every other
\* field in stored order, each after two tabs of its own, whatever debt is left.
C17_TailAfterTwoTabs ==
    [][(e_k' = e_k + 1 /\ Block \in {"desc", "other"}) =>
           /\ e_st'.spell_string = e_st.spell_string \o TailOf(e_spell, Block)
           /\ Block = "desc" => Steps(e_mode)[e_k + 1] = "other"
           /\ Block = "other" => e_k + 1 > Len(Steps(e_mode))]_vars

\* the encoder has ended with debt left, after a description and two other fields
C17_Witness ==
    /\ EncDone
    /\ e_st.excess_tabs > 0
    /\ e_spell.fields.desc # <<>>
    /\ Len(e_spell.other_fields) = 2

\* the names of the set component flags as Pathfinder 1e and D&D 3.5e write them
CompNames(c) ==
    (IF c.verbal THEN <<<<"V">>>> ELSE <<>>)
        \o (IF c.somatic THEN <<<<"S">>>> ELSE <<>>)
        \o (IF c.material THEN <<<<"M">>>> ELSE <<>>)
        \o (IF c.focus /\ c.divine_focus THEN <<<<"F", "/", "D", "F">>>>
            ELSE IF c.focus THEN <<<<"F">>>>
            ELSE IF c.divine_focus THEN <<<<"D", "F">>>>
            ELSE <<>>)

\* the positions of the COMPS: tokens among tokens
CompsTokens(tokens) == {i \in 1..Len(tokens) : StartsWith(tokens[i], TAG_COMPS)}

\* C18: in Pathfinder 1e and D&D 3.5e the encoded line has no COMPS: token when no
\* component flag is set, and otherwise exactly one, COMPS: followed by the names of
\* the set flags joined by commas (focus with divine focus as F/DF); decoding that
\* token gives exactly the five flags of the record.
C18_CompsRoundTrip ==
    (EncDone /\ e_mode # "D&D 5e") =>
        LET tokens == EncTokens
            names  == CompNames(e_spell.comps)
        IN  IF names = <<>> THEN CompsTokens(tokens) = {}
            ELSE /\ Cardinality(CompsTokens(tokens)) = 1
                 /\ \A i \in CompsTokens(tokens) :
                        /\ tokens[i] = TAG_COMPS \o Join(names, <<",">>)
                        /\ Spell(DecodeComps(spell_dict_init(<<>>), tokens[i])).comps
                               = e_spell.comps

\* a record with all five flags has been encoded in D&D 3.5e
C18_Witness ==
    /\ EncDone /\ e_mode = "D&D 3.5e"
    /\ \A f \in {"verbal", "somatic", "material", "focus", "divine_focus"} :
           e_spell.comps[f]

(***************************************************************************)
(* Properties of the record branch of load_spell_lst                       *)
(***************************************************************************)
\* the classes the one CLASSES: token of tokens names, per level
NamedClasses(tokens) ==
    LET i == CHOOSE c \in ClassesTokens(tokens) : TRUE
    IN  [level \in 1..10 |-> NamedAt(GroupsOf(tokens[i]), level - 1)]

\* C19: a record line with one CLASSES: token, every level of it in 0..9, decodes to
\* a record that has, at each level, the classes of all the groups of that level in
\* the order of the token, also when two groups name the same level.
C19_EveryGroupAppended ==
    (JustDecoded /\ OneClassesToken(Tokens(line))) =>
        FirstDecode.classes = NamedClasses(Tokens(line))

\* the positions of the tokens after the name that are a recognized tag alone
BareTags(tokens) == {i \in 2..Len(tokens) : tokens[i] \in RecognizedTags}

\* C20: a record line decodes to the record that the same line without its
\* bare-tag tokens decodes to, and no bare tag is put in other_fields.
C20_EmptyValueDropped ==
    JustDecoded =>
        LET tokens == Tokens(line)
            rest   == Without(tokens, BareTags(tokens), 1)
        IN  /\ FirstDecode = Spell(DecodeLine(Join(rest, <<TAB>>)))
            /\ \A i \in 1..Len(FirstDecode.other_fields) :
                   FirstDecode.other_fields[i] \notin RecognizedTags

(***************************************************************************)
(* Properties of SpellGenerator                                            *)
(***************************************************************************)
\* the current mode's spell list
CurrentList == self_spell_list[system_mode]

\* the lines a document is specified to have for the given spells, mods and mode
DocumentLines(spell_seq, mod_seq, hdr, mode) ==
    <<hdr, <<>>>> \o [i \in 1..Len(spell_seq) |-> Str(spell_seq[i], mode)]
                 \o <<<<>>, BEGIN_MODS>> \o mod_seq

\* C13: the file that generate_spell_lst has just written consists of the header
\* line, one blank line, one line per spell of the list in list order, each the
\* spell rendered in the given mode, one blank line, the line "# BEGIN MODS",
\* and the modification lines unchanged and in order.
C13_DocumentLayout ==
    op.wrote =>
        ReadLines(saved) = DocumentLines(CurrentList, self_mod_list, DefaultHeader, system_mode)

\* C14: when load_spells has loaded a file with a header line, self.header holds
\* that line; the file a following save_spells writes has that line as its first
\* line.
C14_HeaderPreserved ==
    (op.wrote /\ self_header # <<>>) => Head(ReadLines(saved)) = self_header

\* C15: a callback changes no spell list but that of the mode selected while it
\* runs: the lists of the two other modes are the same before and after it.
C15_OtherModesUnchanged ==
    [][\A mode \in Modes :
           mode # system_mode' => self_spell_list'[mode] = self_spell_list[mode]]_vars

\* a spell has just been added to the empty list of one mode while the list of
\* another mode holds spells
C15_Witness ==
    /\ op.name = "add_spell"
    /\ CurrentList = <<op.spell>>
    /\ \E mode \in Modes : mode # system_mode /\ Len(self_spell_list[mode]) > 0

\* the first spell of the list that has exactly the given name
SameNamed(list, name) ==
    CHOOSE i \in 1..Len(list) :
        list[i].fields.name = name /\ \A j \in 1..(i - 1) : list[j].fields.name # name

\* the list with the spell of the same name removed and the new spell appended
Overwritten(list, spell) ==
    Append(DeleteAt(list, SameNamed(list, spell.fields.name) - 1), spell)

\* C16: when add_spell is called with a spell whose name is in the current list,
\* the list afterwards is the old list with the spell of that name removed and the
\* new spell appended if the user confirmed, and the old list if the user declined.
C16_OverwriteOnAdd ==
    [][(nops' = nops + 1 /\ op'.name = "add_spell" /\ op'.asked) =>
           self_spell_list'[system_mode] =
               IF op'.answer THEN Overwritten(CurrentList, op'.spell) ELSE CurrentList]_vars

(***************************************************************************)
(* Properties of the padding of Spell.__str__                              *)
(***************************************************************************)
\* the blocks that end in the loop paying the debt down
PaddedBlocks ==
    {"type", "school", "subschool", "casting_time", "range", "duration", "save", "sr",
     "target", "comps", "classes", "descriptors"}

\* the number of tabs at the end of what a block has added to the line
TabsEmitted(before, after) ==
    LET n == Len(after)
    IN  n - Max(Len(before),
                Max(0, CHOOSE i \in 0..n :
                           (i = 0 \/ after[i] # TAB) /\ \A j \in (i + 1)..n : after[j] = TAB))

\* what a padded block did with the debt: it took over what the earlier fields of
\* the record had left, wrote its padding less the debt, and left the debt less
\* the tabs it cancelled
DebtStep(before, after) ==
    /\ after.debt_in >= before.excess_tabs
    /\ after.padding > 0 => after.debt_in = before.excess_tabs
    /\ TabsEmitted(before.spell_string, after.spell_string)
           = Max(0, after.padding - after.debt_in)
    /\ after.excess_tabs
           = after.debt_in
               - (Max(0, after.padding)
                    - TabsEmitted(before.spell_string, after.spell_string))

\* C21: the debt of a record is 0 when its encoding starts, whatever the record
\* before it left, and never negative; each padded field writes
\* max(0, padding - debt) tabs and lowers the debt by the tabs it cancelled; the
\* debt left goes to the next field of the record.
C21_DebtAccounting ==
    [][/\ e_st'.excess_tabs >= 0
       /\ e_k' = 0 => e_st'.excess_tabs = 0
       /\ (e_k' = 1 /\ Len(e_spell.fields.name) <= 6 * PCGEN_TAB_SIZE)
              => e_st'.excess_tabs = 0
       /\ (e_k' = e_k + 1 /\ Block \in PaddedBlocks) => DebtStep(e_st, e_st')]_vars

\* a field has just written no tab because the debt exceeded its padding, and
\* debt is left for the next field
C21_Witness ==
    /\ LastBlock \in PaddedBlocks
    /\ e_st.padding > 0
    /\ e_st.tabs = 0
    /\ e_st.excess_tabs > 0

\* the blocks that compute their padding with calculate_tabs or calculate_tabs_raw
CalculatedBlocks ==
    {"casting_time", "range", "duration", "save", "sr", "target", "comps", "classes",
     "descriptors"}

\* the nominal width of the field of a block
NominalWidth(mode, block) == field_width(mode)[block]

\* a block has added a token to the line, not only tabs
TokenAdded(before, after) == \E i \in (Len(before) + 1)..Len(after) : after[i] # TAB

\* the length of the last token of a line: tag and value, without the tabs around
LastTokenLen(s) ==
    LET e == CHOOSE i \in 1..Len(s) : s[i] # TAB /\ \A j \in (i + 1)..Len(s) : s[j] = TAB
        b == CHOOSE i \in 0..e :
                 (i = 0 \/ s[i] = TAB) /\ \A j \in (i + 1)..e : s[j] # TAB
    IN  e - b

\* the padding and the debt of a token of length n in a field of width w
PaddingOf(n, w) == w - IntDiv(n, PCGEN_TAB_SIZE)

DebtOf(n, w) == IF n > PCGEN_TAB_SIZE * w THEN IntDiv(n, PCGEN_TAB_SIZE) - w ELSE 0

\* C22: when a field rendered through calculate_tabs or calculate_tabs_raw writes
\* a token of length n (tag plus value) and has the nominal width w, its computed
\* padding is w - floor(n / 6) and the debt it adds is floor(n / 6) - w when
\* n > 6 * w and 0 otherwise.
C22_PaddingAndDebt ==
    [][(/\ e_k' = e_k + 1
        /\ Block \in CalculatedBlocks
        /\ TokenAdded(e_st.spell_string, e_st'.spell_string)) =>
           /\ e_st'.padding
                  = PaddingOf(LastTokenLen(e_st'.spell_string), NominalWidth(e_mode, Block))
           /\ e_st'.debt_in - e_st.excess_tabs
                  = DebtOf(LastTokenLen(e_st'.spell_string), NominalWidth(e_mode, Block))]_vars

\* a casting time wider than its column has just been written and has added debt
C22_Witness ==
    /\ LastBlock = "casting_time"
    /\ Len(e_spell.fields.casting_time) > 6 * PCGEN_TAB_SIZE
    /\ e_st.padding < 0
    /\ e_st.debt_in > 0

\* the alignable fields the mode renders: in D&D 5e the loop over fields leaves
\* out SPELLRES and TARGETAREA, and DESCRIPTOR has no column
RenderedBlocks(mode) ==
    IF mode = "D&D 5e" THEN PaddedBlocks \ {"sr", "target", "descriptors"} ELSE PaddedBlocks

\* the record holds nothing for the field of the block
FieldEmpty(spell, block) ==
    CASE block = "type" ->
             ~(spell.type.arcane \/ spell.type.divine \/ spell.type.psychic)
      [] block = "comps" ->
             ~(spell.comps.verbal \/ spell.comps.somatic \/ spell.comps.material
                 \/ spell.comps.focus \/ spell.comps.divine_focus)
      [] block = "classes" -> \A level \in 1..10 : spell.classes[level] = <<>>
      [] block = "descriptors" -> spell.descriptors = <<>>
      [] OTHER -> spell.fields[block] = <<>>

\* C23: when the record holds nothing for an alignable field that the mode renders
\* and no debt is outstanding, the encoder writes nominal width + 1 tabs in the
\* place of the field and nothing else.
C23_EmptyFieldPadding ==
    [][(/\ e_k' = e_k + 1
        /\ Block \in RenderedBlocks(e_mode)
        /\ FieldEmpty(e_spell, Block)
        /\ e_st.excess_tabs = 0) =>
           e_st'.spell_string
               = e_st.spell_string \o Tabs(NominalWidth(e_mode, Block) + 1)]_vars

\* a record without classes has just got the eleven tabs of the CLASSES column,
\* after a subschool column left empty as well
C23_Witness ==
    /\ LastBlock = "classes"
    /\ FieldEmpty(e_spell, "classes")
    /\ FieldEmpty(e_spell, "subschool")
    /\ e_st.debt_in = 0
    /\ e_st.tabs = 11

\* the levels 0 to 9 at which the record has a class, in ascending order
LevelsWithClasses(spell) ==
    SelectSeq(<<0, 1, 2, 3, 4, 5, 6, 7, 8, 9>>, LAMBDA level : spell.classes[level + 1] # <<>>)

\* the CLASSES: token as specified: the groups of the levels joined by "|", each the
\* class names joined by "," and "=level", then the class suffix
ClassesTokenOf(spell) ==
    LET levels == LevelsWithClasses(spell)
    IN  TAG_CLASSES
            \o Join([i \in 1..Len(levels) |->
                         Join(spell.classes[levels[i] + 1], <<",">>)
                             \o <<"=">> \o StrLevel(levels[i])], <<"|">>)
            \o spell.fields.class_suffix

\* what the classes block adds before its padding
ClassesAdded(spell) ==
    IF LevelsWithClasses(spell) = <<>> THEN <<>> ELSE <<TAB>> \o ClassesTokenOf(spell)

\* C24: when a level has a class, the classes block writes CLASSES: followed by the
\* groups of the levels that have classes, in ascending level order and joined by
\* "|", each the class names in stored order joined by "," and followed by "=" and
\* the level, and then the class suffix as stored; when no level has a class it
\* writes no token, only padding.
C24_ClassesRendering ==
    [][(e_k' = e_k + 1 /\ Block = "classes") =>
           e_st'.spell_string
               = e_st.spell_string \o ClassesAdded(e_spell) \o Tabs(e_st'.tabs)]_vars

\* the classes block has just written three levels, one of them with two classes,
\* and a class suffix
C24_Witness ==
    /\ LastBlock = "classes"
    /\ Len(LevelsWithClasses(e_spell)) = 3
    /\ Len(e_spell.classes[4]) = 2
    /\ e_spell.fields.class_suffix # <<>>


(***************************************************************************)
(* Properties of SpellEditor                                               *)
(***************************************************************************)
\* the spell holds a name, a class at some level, a casting time, a duration and
\* a range
Complete(spell) ==
    /\ spell.fields.name # <<>>
    /\ \E level \in 1..10 : spell.classes[level] # <<>>
    /\ spell.fields.casting_time # <<>>
    /\ spell.fields.duration # <<>>
    /\ spell.fields.range # <<>>

\* C25: every spell that SpellEditor.add_spell hands to SpellGenerator.add_spell
\* has, as the Spell stores it, a non-empty name, at least one class, and a
\* non-empty casting time, duration and range; when the editor rejects the
\* widgets' contents, the spell list and the listbox are unchanged
C25_EditorValidation ==
    [][/\ (nops' = nops + 1 /\ op'.name = "add_spell") => Complete(op'.spell)
       /\ (nops' = nops + 1 /\ op'.name = "rejected")
              => UNCHANGED <<self_spell_list, spell_lb>>]_vars

\* the classes of the entries of a class listbox
ClassesIn(lb) == {ClassOfEntry(lb[i]) : i \in 1..Len(lb)}

\* C26: after a remove_class that removed entries, every spell type that has a
\* removed class among its casters and no caster left in the class listbox is
\* unchecked
C26_TypeFollowsClasses ==
    [][(nops' = nops + 1 /\ op'.name = "remove_class" /\ op'.asked)
           => \A t \in {"arcane", "divine", "psychic"} :
                  ((\E c \in ClassesIn(classes_lb) \ ClassesIn(classes_lb') :
                        InTuple(c, caster_type(system_mode)[t]))
                   /\ ~CastersRemaining(classes_lb', system_mode, t))
                      => ~type_values'[t]]_vars


(***************************************************************************)
(* Properties of the lists of SpellGenerator                               *)
(***************************************************************************)
\* C27: the names the listbox shows are, index by index, the names of the spells
\* of the current mode's spell list
C27_ListboxShowsList == spell_lb = Names(CurrentList)

\* C28: when load_spell_lst fails, load_spells leaves the current mode's spell list
\* and the mod list as they were
C28_FailedLoadKeepsLists ==
    [][(nops' = nops + 1 /\ op'.name = "load_spells" /\ op'.raised)
           => /\ self_spell_list'[system_mode] = self_spell_list[system_mode]
              /\ self_mod_list' = self_mod_list]_vars


(***************************************************************************)
(* Properties of the .MOD branch of load_spell_lst: what it leaves alone   *)
(***************************************************************************)
\* The step handles a .MOD line without an error
MergedStep == ModStep /\ pc' = "reading"

\* some CLASSES: token of the directive has a bracketed suffix
HasSuffixToken(tokens) ==
    \E i \in ClassesTokens(tokens) : HasSuffix(Value(tokens[i]))

\* C30 as stated: a step that handles a .MOD line keeps the number of records,
\* changes nothing of a record of the target name but its classes per level (its
\* class_suffix too is as before), and changes no other record.
C30_MergeChangesClassesOnly ==
    [][MergedStep =>
           /\ Len(spells') = Len(spells)
           /\ \A k \in 1..Len(spells) :
                  IF k \in Targets(spells, ModName(line'))
                  THEN spells'[k] = [spells[k] EXCEPT !.classes = spells'[k].classes]
                  ELSE spells'[k] = spells[k]]_vars

\* C30 amended: a step that handles a .MOD line keeps the number of records and
\* changes no record of another name; of a record of the target name it changes
\* nothing but the classes per level and the class_suffix, which is the old
\* class_suffix with zero or more characters appended, and is the old one when no
\* CLASSES: token of the directive has a bracketed suffix.
C30_MergeChangesClassesAndSuffix ==
    [][MergedStep =>
           /\ Len(spells') = Len(spells)
           /\ \A k \in 1..Len(spells) :
                  IF k \in Targets(spells, ModName(line'))
                  THEN /\ spells'[k] =
                              [spells[k] EXCEPT
                                   !.classes = spells'[k].classes,
                                   !.fields.class_suffix = spells'[k].fields.class_suffix]
                       /\ IsPrefix(spells[k].fields.class_suffix,
                                   spells'[k].fields.class_suffix)
                       /\ ~HasSuffixToken(Tokens(line'))
                              => spells'[k].fields.class_suffix
                                     = spells[k].fields.class_suffix
                  ELSE spells'[k] = spells[k]]_vars

\* a directive with a suffix was merged into Cure, which had a suffix, while
\* another record was loaded: Cure's class_suffix is the two suffixes in a row
C30_Witness ==
    /\ pc = "reading" /\ line = L_ModSuffix
    /\ Len(spells) = 2
    /\ \E k \in 1..2 :
           /\ spells[k].fields.name = ModName(line)
           /\ spells[k].fields.class_suffix
                  = <<"[","P","R","E",":","x","]","[","P","R","E",":","y","]">>
           /\ spells[k].classes[3] = <<<<"D","r","d">>, <<"B","r","d">>>>


(***************************************************************************)
(* Properties of saving and loading again                                  *)
(***************************************************************************)
\* two lists of records with the same classes per level, record by record
SameClasses(a, b) ==
    /\ Len(a) = Len(b)
    /\ \A k \in 1..Len(a) : a[k].classes = b[k].classes

\* r, what load_spell_lst returns for the written file, has the classes of the
\* records spell_seq and the modification lines mod_seq
Stable(r, spell_seq, mod_seq) ==
    /\ ~r.raised
    /\ SameClasses(r.spells, spell_seq)
    /\ r.mods = mod_seq

\* C29: when load_spell_lst has returned the records and the modification lines of
\* a document, loading the file that generate_spell_lst writes from them in
\* Pathfinder 1e mode gives records with the same classes per level and the same
\* modification lines
C29_SaveReloadStable ==
    pc = "returned"
        => Stable(load_spell_lst(generate_spell_lst(spells, mods, DefaultHeader,
                                                    "Pathfinder 1e")),
                  spells, mods)

=============================================================================
